---- MODULE Spec2Model ----
(***************************************************************************)
(* A model of the MetaForge compiler front end and pipeline:               *)
(*   lexer.py (MetaForgeLexer.tokenize), parser.py (MetaForgeParser),      *)
(*   semantic_analyzer.py (Scope, SemanticAnalyzer), ir_generator.py       *)
(*   (IRGenerator.generate), diagnostics.py (DiagnosticEmitter),           *)
(*   pipeline.py (CompilationPipeline.compile), compile_metaforge.py       *)
(*   (main).                                                               *)
(* The function bodies are modelled as written; the modules are taken to   *)
(* be importable.  A Python exception is a result record whose field st    *)
(* names the exception class.  A source text is a sequence of              *)
(* one-character strings, indexed from 0 by At and Slice as in Python.     *)
(***************************************************************************)
EXTENDS Integers, Sequences, FiniteSets, TLC

\* ------------------------------------------------------------------------
\* Bounds of the model
\* ------------------------------------------------------------------------
MaxSrcLen == 3

\* ------------------------------------------------------------------------
\* Local variables
\* ------------------------------------------------------------------------
\* With([x \in {e} |-> body]) is body with x standing for the value of e,
\* the way a local variable of the code holds the value it was assigned
With(f) == f[CHOOSE x \in DOMAIN f : TRUE]

\* ------------------------------------------------------------------------
\* Characters (str.isspace, str.isdigit, str.isalpha, str.lower)
\* ------------------------------------------------------------------------
LowerSeq == <<"a","b","c","d","e","f","g","h","i","j","k","l","m",
              "n","o","p","q","r","s","t","u","v","w","x","y","z">>

UpperSeq == <<"A","B","C","D","E","F","G","H","I","J","K","L","M",
              "N","O","P","Q","R","S","T","U","V","W","X","Y","Z">>

DigitSeq == <<"0","1","2","3","4","5","6","7","8","9">>

Range(s) == { s[i] : i \in DOMAIN s }

IsSpace(c) == c \in {" ", "\n", "\t", "\r"}

IsDigit(c) == c \in Range(DigitSeq)

IsAlpha(c) == c \in Range(LowerSeq) \cup Range(UpperSeq)

IsAlnum(c) == IsAlpha(c) \/ IsDigit(c)

LowerChar(c) ==
    IF c \in Range(UpperSeq)
    THEN LowerSeq[CHOOSE i \in DOMAIN UpperSeq : UpperSeq[i] = c]
    ELSE c

DigitVal(c) == (CHOOSE i \in DOMAIN DigitSeq : DigitSeq[i] = c) - 1

Min(a, b) == IF a < b THEN a ELSE b

\* source[p] and source[a:b] of Python (0-based, the slice clamps at the end)
At(src, p) == src[p + 1]

Slice(src, a, b) == SubSeq(src, a + 1, Min(b, Len(src)))

\* ''.join(chars): the Python str of a sequence of characters
RECURSIVE Join(_)
Join(s) == IF s = <<>> THEN "" ELSE Head(s) \o Join(Tail(s))

\* str.lower of a sequence of characters, as a str
RECURSIVE LowerStr(_)
LowerStr(s) == IF s = <<>> THEN "" ELSE LowerChar(Head(s)) \o LowerStr(Tail(s))

\* int(text) for a run of decimal digits
RECURSIVE IntOf(_)
IntOf(s) == IF s = <<>> THEN 0 ELSE 10 * IntOf(SubSeq(s, 1, Len(s) - 1)) + DigitVal(s[Len(s)])

\* str(n) of a non-negative int, as a sequence of characters
RECURSIVE IntStr(_)
IntStr(n) ==
    IF n < 10 THEN <<DigitSeq[n + 1]>> ELSE Append(IntStr(n \div 10), DigitSeq[(n % 10) + 1])

CountOf(c, s) == Cardinality({ i \in DOMAIN s : s[i] = c })

\* the digits of s without its trailing zeros
RECURSIVE StripZeros(_)
StripZeros(s) ==
    IF s # <<>> /\ s[Len(s)] = "0" THEN StripZeros(SubSeq(s, 1, Len(s) - 1)) ELSE s

\* float(text) for text made of digits and exactly one '.', text starting
\* with a digit: the value is kept as integer part and significant fraction
FloatOf(s) ==
    With([dot \in {(CHOOSE i \in DOMAIN s : s[i] = ".")} |->
        [int |-> IntOf(SubSeq(s, 1, dot - 1)),
         frac |-> StripZeros(SubSeq(s, dot + 1, Len(s)))]])

\* str(x) of a float of that form
FloatStr(x) == IntStr(x.int) \o <<".">> \o (IF x.frac = <<>> THEN <<"0">> ELSE x.frac)

\* ------------------------------------------------------------------------
\* lexer.py
\* ------------------------------------------------------------------------
\* KEYWORDS: the lexeme in lower case -> the name of the TokenType member
KEYWORDS ==
    [k \in {"func", "fn", "if", "else", "while", "for", "in", "return",
            "break", "continue", "class", "extends", "implements",
            "interface", "public", "private", "protected", "static",
            "final", "abstract", "async", "await", "spawn", "auto", "const",
            "let", "var", "range", "import", "ret", "hybrid"} |->
        CASE k = "func" -> "FUNC" [] k = "fn" -> "FN" [] k = "if" -> "IF"
          [] k = "else" -> "ELSE" [] k = "while" -> "WHILE" [] k = "for" -> "FOR"
          [] k = "in" -> "IN" [] k = "return" -> "RETURN" [] k = "break" -> "BREAK"
          [] k = "continue" -> "CONTINUE" [] k = "class" -> "CLASS"
          [] k = "extends" -> "EXTENDS" [] k = "implements" -> "IMPLEMENTS"
          [] k = "interface" -> "INTERFACE" [] k = "public" -> "PUBLIC"
          [] k = "private" -> "PRIVATE" [] k = "protected" -> "PROTECTED"
          [] k = "static" -> "STATIC" [] k = "final" -> "FINAL"
          [] k = "abstract" -> "ABSTRACT" [] k = "async" -> "ASYNC"
          [] k = "await" -> "AWAIT" [] k = "spawn" -> "SPAWN" [] k = "auto" -> "AUTO"
          [] k = "const" -> "CONST" [] k = "let" -> "LET" [] k = "var" -> "VAR"
          [] k = "range" -> "RANGE" [] k = "import" -> "IMPORT" [] k = "ret" -> "RET"
          [] k = "hybrid" -> "HYBRID"]
    @@ [k \in {"i32", "i64", "f32", "f64", "bool", "string", "void"} |-> "TYPE"]

\* Token(type, value, line, column), value a sequence of characters (an int
\* for INTEGER, a float for FLOAT); start and end are the scan positions
\* source[start:end] the token was made from (the locals start and self.pos)
Token(type, value, line, column, start, end) ==
    [type |-> type, value |-> value, line |-> line, column |-> column,
     start |-> start, end |-> end]

\* the one-character tokens of the operators-and-punctuation branch; the
\* other characters of the list '+-*/%=<>!&|^~()[]{},.:;@' leave token None
SingleCharType(c) ==
    CASE c = "(" -> "LEFT_PAREN"
      [] c = ")" -> "RIGHT_PAREN"
      [] c = "{" -> "LEFT_BRACE"
      [] c = "}" -> "RIGHT_BRACE"
      [] c = "[" -> "LEFT_BRACKET"
      [] c = "]" -> "RIGHT_BRACKET"
      [] c = "," -> "COMMA"
      [] c = "." -> "DOT"
      [] c = ":" -> "COLON"
      [] c = ";" -> "SEMICOLON"
      [] c = "@" -> "AT"
      [] c = "<" -> "LESS_THAN"
      [] c = ">" -> "GREATER_THAN"
      [] OTHER -> "None"

\* while self.pos < len and self.source[self.pos] != '\n': self.pos += 1
RECURSIVE EndOfLine(_, _)
EndOfLine(src, p) ==
    IF p < Len(src) /\ At(src, p) # "\n" THEN EndOfLine(src, p + 1) ELSE p

\* the loop of the multi-line comment, on [pos, line, column]
RECURSIVE BlockCommentLoop(_, _)
BlockCommentLoop(src, s) ==
    IF s.pos < Len(src) - 1
    THEN IF At(src, s.pos) = "*" /\ At(src, s.pos + 1) = "/"
         THEN [s EXCEPT !.pos = @ + 2, !.column = @ + 2]
         ELSE BlockCommentLoop(src,
                IF At(src, s.pos) = "\n"
                THEN [s EXCEPT !.pos = @ + 1, !.line = @ + 1, !.column = 1]
                ELSE [s EXCEPT !.pos = @ + 1, !.column = @ + 1])
    ELSE s

\* while self.pos < len and (isdigit() or == '.'): self.pos += 1
RECURSIVE EndOfNumber(_, _)
EndOfNumber(src, p) ==
    IF p < Len(src) /\ (IsDigit(At(src, p)) \/ At(src, p) = ".")
    THEN EndOfNumber(src, p + 1) ELSE p

\* the loop of the string literal: an escape advances by two
RECURSIVE EndOfStringBody(_, _, _)
EndOfStringBody(src, p, quote) ==
    IF p < Len(src) /\ At(src, p) # quote
    THEN EndOfStringBody(src, IF At(src, p) = "\\" THEN p + 2 ELSE p + 1, quote)
    ELSE p

\* while self.pos < len and (isalnum() or == '_'): self.pos += 1
RECURSIVE EndOfIdentifier(_, _)
EndOfIdentifier(src, p) ==
    IF p < Len(src) /\ (IsAlnum(At(src, p)) \/ At(src, p) = "_")
    THEN EndOfIdentifier(src, p + 1) ELSE p

\* One iteration of the while loop of tokenize, on the lexer's fields
\* [pos, line, column, tokens] and raised (the exception leaving tokenize)
LexIteration(src, s) ==
    With([c \in {At(src, s.pos)} |->
    With([n \in {Len(src)} |->
    IF IsSpace(c)
    THEN IF c = "\n"
         THEN [s EXCEPT !.pos = @ + 1, !.line = @ + 1, !.column = 1]
         ELSE [s EXCEPT !.pos = @ + 1, !.column = @ + 1]
    ELSE IF c = "/" /\ s.pos + 1 < n /\ At(src, s.pos + 1) = "/"
    THEN
         With([e \in {EndOfLine(src, s.pos)} |->
             [s EXCEPT !.pos = e, !.column = @ + (e - s.pos),
                       !.tokens = Append(@, Token("COMMENT", Slice(src, s.pos, e),
                                                  s.line, s.column, s.pos, e))]])
    ELSE IF c = "/" /\ s.pos + 1 < n /\ At(src, s.pos + 1) = "*"
    THEN
         With([e \in {BlockCommentLoop(src, [s EXCEPT !.pos = @ + 2, !.column = @ + 2])} |->
             [e EXCEPT !.tokens = Append(@, Token("COMMENT", Slice(src, s.pos, e.pos),
                                                  e.line, s.column, s.pos, e.pos))]])
    ELSE IF IsDigit(c)
    THEN
         With([e \in {EndOfNumber(src, s.pos)} |->
         With([text \in {Slice(src, s.pos, e)} |->
             IF CountOf(".", text) > 1
             THEN \* float() of a text with two dots
                  [s EXCEPT !.pos = e, !.column = @ + (e - s.pos), !.raised = "ValueError"]
             ELSE [s EXCEPT !.pos = e, !.column = @ + (e - s.pos),
                       !.tokens = Append(@,
                          IF CountOf(".", text) = 1
                          THEN Token("FLOAT", FloatOf(text), s.line, s.column, s.pos, e)
                          ELSE Token("INTEGER", IntOf(text), s.line, s.column, s.pos, e))]])])
    ELSE IF c \in {"\"", "'"}
    THEN
         With([b \in {EndOfStringBody(src, s.pos + 1, c)} |->
         With([e \in {IF b < n THEN b + 1 ELSE b} |->
             [s EXCEPT !.pos = e, !.column = @ + (e - s.pos),
                       !.tokens = Append(@, Token("STRING", Slice(src, s.pos, e),
                                                  s.line, s.column, s.pos, e))]])])
    ELSE IF IsAlpha(c) \/ c = "_"
    THEN
         With([e \in {EndOfIdentifier(src, s.pos)} |->
         With([text \in {Slice(src, s.pos, e)} |->
         With([low \in {LowerStr(text)} |->
         LET type == IF low \in DOMAIN KEYWORDS THEN KEYWORDS[low] ELSE "IDENTIFIER"
         IN  (
             [s EXCEPT !.pos = e, !.column = @ + (e - s.pos),
                       !.tokens = Append(@, Token(type, text, s.line, s.column, s.pos, e))])])])])
    ELSE IF s.pos + 1 < n /\ c = "-" /\ At(src, s.pos + 1) = ">"
    THEN [s EXCEPT !.pos = @ + 2, !.column = @ + 2,
                   !.tokens = Append(@, Token("ARROW", <<"-", ">">>, s.line, s.column, s.pos, s.pos + 2))]
    ELSE IF SingleCharType(c) # "None"
    THEN [s EXCEPT !.pos = @ + 1, !.column = @ + 1,
                   !.tokens = Append(@, Token(SingleCharType(c), <<c>>, s.line, s.column,
                                              s.pos, s.pos + 1))]
    ELSE \* Skip unknown characters
         [s EXCEPT !.pos = @ + 1, !.column = @ + 1]])])

RECURSIVE LexLoop(_, _)
LexLoop(src, s) ==
    IF s.raised = "" /\ s.pos < Len(src) THEN LexLoop(src, LexIteration(src, s)) ELSE s

\* MetaForgeLexer(source).tokenize(): st = "ok" and the token list, or the
\* exception that leaves tokenize
Tokenize(src) ==
    With([s \in {(
             LexLoop(src, [pos |-> 0, line |-> 1, column |-> 1, tokens |-> <<>>, raised |-> ""])
    )} |->
        IF s.raised # ""
        THEN [st |-> s.raised, tokens |-> s.tokens]
        ELSE [st |-> "ok",
              tokens |-> Append(s.tokens, Token("EOF", <<>>, s.line, s.column, s.pos, s.pos))]])

\* the lexeme a token stands for: str() of its value, as characters
Lexeme(t) ==
    CASE t.type = "INTEGER" -> IntStr(t.value)
      [] t.type = "FLOAT" -> FloatStr(t.value)
      [] OTHER -> t.value

\* the member names of the enum TokenType (aliases included)
TokenTypeNames ==
    {"ABSTRACT", "AND", "ARROW", "ASSIGN", "ASYNC", "AT", "AUTO", "AWAIT",
     "BIT_AND", "BIT_NOT", "BIT_OR", "BIT_XOR", "BOOL", "BREAK", "CLASS",
     "COLON", "COMMA", "COMMENT", "CONST", "CONTINUE", "DIVIDE",
     "DIVIDE_ASSIGN", "DOT", "ELSE", "EOF", "EQUALS", "EXTENDS", "FINAL",
     "FLOAT", "FN", "FOR", "FUNC", "GENERIC_COMMA", "GENERIC_GREATER_THAN",
     "GENERIC_LEFT_BRACKET", "GENERIC_LESS_THAN", "GENERIC_RIGHT_BRACKET",
     "GREATER", "GREATER_EQUALS", "GREATER_THAN", "HYBRID", "IDENTIFIER",
     "IF", "IMPLEMENTS", "IMPORT", "IN", "INTEGER", "INTERFACE",
     "LEFT_BRACE", "LEFT_BRACKET", "LEFT_PAREN", "LEFT_SHIFT", "LESS",
     "LESS_EQUALS", "LESS_THAN", "LET", "MINUS", "MINUS_ASSIGN", "MODULO",
     "MODULO_ASSIGN", "MULTIPLY", "MULTIPLY_ASSIGN", "NEWLINE", "NOT",
     "NOT_EQUALS", "NULL", "OR", "PLUS", "PLUS_ASSIGN", "POWER", "PRIVATE",
     "PROTECTED", "PUBLIC", "RANGE", "RET", "RETURN", "RIGHT_BRACE",
     "RIGHT_BRACKET", "RIGHT_PAREN", "RIGHT_SHIFT", "SEMICOLON", "SPAWN",
     "STATIC", "STRING", "TYPE", "VAR", "WHILE", "WHITESPACE"}

\* ------------------------------------------------------------------------
\* parser.py
\* ------------------------------------------------------------------------
\* A parse function is an operator of the token list t and the index i of
\* current_token (i = self.pos of the code; past the list current_token is
\* a fresh EOF token).  It gives [st |-> "ok", pos, node] or the exception
\* it raises, [st |-> "SyntaxError" or "AttributeError", msg].
NoneNode == [type |-> "None"]

Ok(p, n) == [st |-> "ok", pos |-> p, node |-> n]

SyntaxError(msg) == [st |-> "SyntaxError", msg |-> msg]

\* TokenType.<name> for a name the enum does not define, or a method the
\* parser class does not define
AttributeError(name) == [st |-> "AttributeError", msg |-> <<"no attribute", name>>]

Cur(t, i) == IF i <= Len(t) THEN t[i] ELSE Token("EOF", <<>>, 0, 0, 0, 0)

Peek(t, i) == Cur(t, i + 1)

Expect(t, i, type) ==
    IF Cur(t, i).type # type
    THEN SyntaxError(<<"Expected", type, "got", Cur(t, i).type>>)
    ELSE Ok(i + 1, NoneNode)

RECURSIVE SkipComments(_, _)
SkipComments(t, i) == IF Cur(t, i).type = "COMMENT" THEN SkipComments(t, i + 1) ELSE i

\* value.strip('"\'') of a sequence of characters
RECURSIVE StripQuotes(_)
StripQuotes(v) ==
    IF v # <<>> /\ Head(v) \in {"\"", "'"} THEN StripQuotes(Tail(v))
    ELSE IF v # <<>> /\ v[Len(v)] \in {"\"", "'"} THEN StripQuotes(SubSeq(v, 1, Len(v) - 1))
    ELSE v

\* self.parse_<rule>() with the parser at the token i: the methods reach
\* one another through self
RECURSIVE ParseRule(_, _, _)

RECURSIVE ParsePrimary(_, _), ParsePostfix(_, _, _), ParseUnary(_, _),
          ParseExpression(_, _), ParseArraySlice(_, _), ParseArrayAccess(_, _)

\* parse_unary
ParseUnary(t, i) ==
    IF Cur(t, i).type \in {"MINUS", "NOT"}
    THEN
         With([r \in {ParseUnary(t, i + 1)} |->
             IF r.st # "ok" THEN r
             ELSE Ok(r.pos, [type |-> "UnaryExpression", operator |-> Cur(t, i).type,
                             operand |-> r.node])])
    ELSE ParsePrimary(t, i)

\* parse_multiplicative: once parse_unary has returned, the while condition
\* reads TokenType.STAR
ParseMultiplicative(t, i) ==
    With([r \in {ParseUnary(t, i)} |->
        IF r.st # "ok" THEN r
        ELSE IF "STAR" \notin TokenTypeNames THEN AttributeError("STAR")
        ELSE r])

\* parse_expression, parse_assignment, parse_logical_or, parse_logical_and,
\* parse_equality, parse_relational, parse_additive: each starts by calling
\* the next one and passes on what it raises
ParseExpression(t, i) == ParseMultiplicative(t, i)

\* parse_primary
ParsePrimary(t, i) ==
    With([j \in {SkipComments(t, i)} |->
    With([token \in {Cur(t, j)} |->
        CASE token.type = "INTEGER" ->
               Ok(j + 1, [type |-> "IntegerLiteral", value |-> token.value])
          [] token.type = "FLOAT" ->
               Ok(j + 1, [type |-> "FloatLiteral", value |-> token.value])
          [] token.type = "STRING" ->
               Ok(j + 1, [type |-> "StringLiteral", value |-> token.value])
          [] token.type = "IDENTIFIER" ->
               ParsePostfix(t, j + 1, [type |-> "Identifier", name |-> token.value])
          [] token.type = "LEFT_PAREN" ->
               With([r \in {ParseRule("expression", t, j + 1)} |->
                   IF r.st # "ok" THEN r
                   ELSE
                        With([k \in {SkipComments(t, r.pos)} |->
                            IF Cur(t, k).type # "RIGHT_PAREN"
                            THEN SyntaxError(<<"Expected ')'", "got", Cur(t, k).type>>)
                            ELSE Ok(k + 1, r.node)])])
          [] OTHER -> SyntaxError(<<"Unexpected token", token.type>>)])])

\* the while True loop of parse_primary after an identifier
ParsePostfix(t, i, expr) ==
    With([j \in {SkipComments(t, i)} |->
        IF Cur(t, j).type = "LEFT_BRACKET"
        THEN IF Peek(t, j).type = "COLON"
             THEN
                  With([r \in {ParseArraySlice(t, j)} |->
                      IF r.st # "ok" THEN r
                      ELSE ParsePostfix(t, r.pos, [type |-> "ArraySliceExpression",
                                                   array |-> expr, slice |-> r.node])])
             ELSE
                  With([r \in {ParseArrayAccess(t, j)} |->
                      IF r.st # "ok" THEN r
                      ELSE ParsePostfix(t, r.pos, [type |-> "ArrayAccessExpression",
                                                   array |-> expr, access |-> r.node])])
        ELSE Ok(j, expr)])

\* parse_array_slice (entered with current_token on the '[')
ParseArraySlice(t, i) ==
    With([j \in {SkipComments(t, i)} |->
    With([r1 \in {(
              IF Cur(t, j).type # "COLON" THEN ParseRule("expression", t, j) ELSE Ok(j, NoneNode)
    )} |->
        IF r1.st # "ok" THEN r1
        ELSE
        With([k \in {SkipComments(t, r1.pos)} |->
            IF Cur(t, k).type # "COLON"
            THEN SyntaxError(<<"Expected ':' in array slice", "got", Cur(t, k).type>>)
            ELSE
            With([k2 \in {SkipComments(t, k + 1)} |->
            With([r2 \in {(
                      IF Cur(t, k2).type \notin {"COLON", "RIGHT_BRACKET"}
                      THEN ParseRule("expression", t, k2) ELSE Ok(k2, NoneNode)
            )} |->
                IF r2.st # "ok" THEN r2
                ELSE
                With([r3 \in {(
                          IF Cur(t, r2.pos).type = "COLON"
                          THEN
                               With([m \in {SkipComments(t, r2.pos + 1)} |->
                                   IF Cur(t, m).type # "RIGHT_BRACKET"
                                   THEN ParseRule("expression", t, m) ELSE Ok(m, NoneNode)])
                          ELSE Ok(r2.pos, NoneNode)
                )} |->
                    IF r3.st # "ok" THEN r3
                    ELSE
                    With([n \in {SkipComments(t, r3.pos)} |->
                        IF Cur(t, n).type # "RIGHT_BRACKET"
                        THEN SyntaxError(<<"Expected ']' after array slice", "got", Cur(t, n).type>>)
                        ELSE Ok(n + 1, [type |-> "ArraySlice", start |-> r1.node,
                                        end |-> r2.node, step |-> r3.node])])])])])])])])

\* parse_array_access
ParseArrayAccess(t, i) ==
    With([j \in {SkipComments(t, i)} |->
        IF Cur(t, j).type # "LEFT_BRACKET"
        THEN SyntaxError(<<"Expected '['", "got", Cur(t, j).type>>)
        ELSE
             With([r \in {ParseRule("expression", t, SkipComments(t, j + 1))} |->
                 IF r.st # "ok" THEN r
                 ELSE
                      With([k \in {SkipComments(t, r.pos)} |->
                          IF Cur(t, k).type # "RIGHT_BRACKET"
                          THEN SyntaxError(<<"Expected ']' after array index", "got", Cur(t, k).type>>)
                          ELSE Ok(k + 1, [type |-> "ArrayAccess", index |-> r.node])])])])

RECURSIVE ParseTypeExpression(_, _), ParseGenericArgs(_, _, _), ParseArrayDims(_, _, _)

\* the while True loop over the generic arguments of parse_type_expression
ParseGenericArgs(t, i, args) ==
    With([r \in {(
             IF Cur(t, i).type = "IDENTIFIER"
             THEN Ok(i + 1, [type |-> "TypeExpression", baseType |-> Cur(t, i).value,
                             isArray |-> FALSE, arrayDimensions |-> 0, isPointer |-> FALSE,
                             genericArgs |-> <<>>, isHybrid |-> FALSE])
             ELSE ParseRule("type_expression", t, i)
    )} |->
        IF r.st # "ok" THEN r
        ELSE IF Cur(t, r.pos).type = "GREATER_THAN" THEN Ok(r.pos + 1, Append(args, r.node))
        ELSE IF Cur(t, r.pos).type # "COMMA"
        THEN SyntaxError(<<"Expected ',' or '>'", "got", Cur(t, r.pos).type>>)
        ELSE ParseGenericArgs(t, r.pos + 1, Append(args, r.node))])

\* the while loop over '[' of parse_type_expression; node is the dimension count
ParseArrayDims(t, i, dims) ==
    IF Cur(t, i).type = "LEFT_BRACKET"
    THEN
         With([j \in {IF Cur(t, i + 1).type = "INTEGER" THEN i + 2 ELSE i + 1} |->
             IF Cur(t, j).type # "RIGHT_BRACKET"
             THEN SyntaxError(<<"Expected ']'", "got", Cur(t, j).type>>)
             ELSE ParseArrayDims(t, j + 1, dims + 1)])
    ELSE Ok(i, dims)

\* parse_type_expression
ParseTypeExpression(t, i) ==
    With([is_hybrid \in {Cur(t, i).type = "HYBRID"} |->
    With([j \in {IF is_hybrid THEN i + 1 ELSE i} |->
        IF Cur(t, j).type \notin {"IDENTIFIER", "TYPE"}
        THEN SyntaxError(<<"Expected type name", "got", Cur(t, j).type>>)
        ELSE
        With([g \in {(
                 IF Cur(t, j + 1).type = "LESS_THAN"
                 THEN ParseGenericArgs(t, j + 2, <<>>) ELSE Ok(j + 1, <<>>)
        )} |->
            IF g.st # "ok" THEN g
            ELSE
            With([d \in {ParseArrayDims(t, g.pos, 0)} |->
                IF d.st # "ok" THEN d
                ELSE
                With([is_pointer \in {Cur(t, d.pos).type = "MULTIPLY"} |->
                    Ok(IF is_pointer THEN d.pos + 1 ELSE d.pos,
                       [type |-> "TypeExpression", baseType |-> Cur(t, j).value,
                        isArray |-> d.node > 0, arrayDimensions |-> d.node,
                        isPointer |-> is_pointer, genericArgs |-> g.node,
                        isHybrid |-> is_hybrid])])])])])])

\* the while True loop over the arguments of parse_decorator
RECURSIVE ParseDecoratorArgs(_, _, _)
ParseDecoratorArgs(t, i, args) ==
    With([r \in {ParseRule("expression", t, SkipComments(t, i))} |->
        IF r.st # "ok" THEN r
        ELSE
             With([k \in {SkipComments(t, r.pos)} |->
                 IF Cur(t, k).type = "RIGHT_PAREN" THEN Ok(k, Append(args, r.node))
                 ELSE IF Cur(t, k).type # "COMMA"
                 THEN SyntaxError(<<"Expected ',' or ')'", "got", Cur(t, k).type>>)
                 ELSE ParseDecoratorArgs(t, k + 1, Append(args, r.node))])])

\* parse_decorator (the second definition of the class, which is the one bound)
ParseDecorator(t, i) ==
    With([j \in {SkipComments(t, i)} |->
        IF Cur(t, j).type # "AT" THEN SyntaxError(<<"Expected '@'", "got", Cur(t, j).type>>)
        ELSE
        With([k \in {SkipComments(t, j + 1)} |->
            IF Cur(t, k).type # "IDENTIFIER"
            THEN SyntaxError(<<"Expected decorator name", "got", Cur(t, k).type>>)
            ELSE
            With([m \in {SkipComments(t, k + 1)} |->
            With([a \in {(
                     IF Cur(t, m).type = "LEFT_PAREN"
                     THEN
                          With([n \in {SkipComments(t, m + 1)} |->
                              IF Cur(t, n).type # "RIGHT_PAREN"
                              THEN
                                   With([r \in {ParseDecoratorArgs(t, n, <<>>)} |->
                                       IF r.st # "ok" THEN r ELSE Ok(r.pos + 1, r.node)])
                              ELSE Ok(n + 1, <<>>)])
                     ELSE Ok(m, <<>>)
            )} |->
                IF a.st # "ok" THEN a
                ELSE Ok(a.pos, [type |-> "Decorator", name |-> Cur(t, k).value,
                                arguments |-> a.node])])])])])

\* while self.current_token.type == TokenType.AT: decorators.append(...)
RECURSIVE ParseDecorators(_, _, _)
ParseDecorators(t, i, decs) ==
    IF Cur(t, i).type = "AT"
    THEN
         With([r \in {ParseDecorator(t, i)} |->
             IF r.st # "ok" THEN r ELSE ParseDecorators(t, r.pos, Append(decs, r.node))])
    ELSE Ok(i, decs)

\* the decorator loop of parse_function_declaration, which skips comments
\* after each decorator
RECURSIVE ParseFunctionDecorators(_, _, _)
ParseFunctionDecorators(t, i, decs) ==
    IF Cur(t, i).type = "AT"
    THEN
         With([r \in {ParseDecorator(t, i)} |->
             IF r.st # "ok" THEN r
             ELSE ParseFunctionDecorators(t, SkipComments(t, r.pos), Append(decs, r.node))])
    ELSE Ok(i, decs)

\* bounds.append(parse_type_expression()) while TokenType.PLUS follows
RECURSIVE ParseBounds(_, _, _)
ParseBounds(t, i, bounds) ==
    With([r \in {ParseRule("type_expression", t, i)} |->
        IF r.st # "ok" THEN r
        ELSE IF Cur(t, r.pos).type = "PLUS"
        THEN ParseBounds(t, r.pos + 1, Append(bounds, r.node))
        ELSE Ok(r.pos, Append(bounds, r.node))])

\* the while True loop over the generic parameters of a function declaration
RECURSIVE ParseFunctionGenerics(_, _, _)
ParseFunctionGenerics(t, i, params) ==
    With([j \in {SkipComments(t, i)} |->
        IF Cur(t, j).type # "IDENTIFIER"
        THEN SyntaxError(<<"Expected type parameter name", "got", Cur(t, j).type>>)
        ELSE
        With([k \in {SkipComments(t, j + 1)} |->
        With([b \in {(
                 IF Cur(t, k).type = "COLON" THEN ParseBounds(t, k + 1, <<>>) ELSE Ok(k, <<>>)
        )} |->
            IF b.st # "ok" THEN b
            ELSE
            With([m \in {SkipComments(t, b.pos)} |->
            With([ps \in {(
                      Append(params, [type |-> "GenericParameter", name |-> Cur(t, j).value,
                                      bounds |-> b.node])
            )} |->
                IF Cur(t, m).type = "GREATER_THAN" THEN Ok(m + 1, ps)
                ELSE IF Cur(t, m).type = "COMMA" THEN ParseFunctionGenerics(t, m + 1, ps)
                ELSE SyntaxError(<<"Expected '>' or ','", "got", Cur(t, m).type>>)])])])])])

\* the while True loop over the parameters of a function declaration; it
\* ends with current_token on the ')'
RECURSIVE ParseParams(_, _, _)
ParseParams(t, i, params) ==
    With([j \in {SkipComments(t, i)} |->
        IF Cur(t, j).type # "IDENTIFIER"
        THEN SyntaxError(<<"Expected parameter name", "got", Cur(t, j).type>>)
        ELSE
        With([k \in {SkipComments(t, j + 1)} |->
            IF Cur(t, k).type # "COLON"
            THEN SyntaxError(<<"Expected ':'", "got", Cur(t, k).type>>)
            ELSE
            With([r \in {ParseRule("type_expression", t, SkipComments(t, k + 1))} |->
                IF r.st # "ok" THEN r
                ELSE
                With([m \in {SkipComments(t, r.pos)} |->
                With([ps \in {Append(params, [name |-> Cur(t, j).value, type |-> r.node])} |->
                    IF Cur(t, m).type = "RIGHT_PAREN" THEN Ok(m, ps)
                    ELSE IF Cur(t, m).type # "COMMA"
                    THEN SyntaxError(<<"Expected ',' or ')'", "got", Cur(t, m).type>>)
                    ELSE ParseParams(t, m + 1, ps)])])])])])

RECURSIVE ParseStatements(_, _, _, _), ParseStatement(_, _), ParseBlock(_, _),
          ParseFunctionDeclaration(_, _), ParseIfStatement(_, _)

\* the statement loop of parse_block and of the function body: it ends
\* after the '}' and gives the list of statements; where is the text of the
\* end-of-file message
ParseStatements(t, i, stmts, where) ==
    IF Cur(t, i).type = "RIGHT_BRACE" THEN Ok(i + 1, stmts)
    ELSE IF Cur(t, i).type = "EOF"
    THEN SyntaxError(<<"Unexpected end of file while parsing", where>>)
    ELSE
    With([j \in {SkipComments(t, i)} |->
        IF Cur(t, j).type = "SEMICOLON" THEN ParseStatements(t, j + 1, stmts, where)
        ELSE
        With([r \in {ParseRule("statement", t, j)} |->
            IF r.st # "ok" THEN r
            ELSE ParseStatements(t,
                    IF Cur(t, r.pos).type = "SEMICOLON" THEN r.pos + 1 ELSE r.pos,
                    IF r.node # NoneNode THEN Append(stmts, r.node) ELSE stmts, where)])])

\* parse_block
ParseBlock(t, i) ==
    With([j \in {SkipComments(t, i)} |->
        IF Cur(t, j).type # "LEFT_BRACE"
        THEN SyntaxError(<<"Expected '{'", "got", Cur(t, j).type>>)
        ELSE
             With([r \in {ParseStatements(t, j + 1, <<>>, "block")} |->
                 IF r.st # "ok" THEN r
                 ELSE Ok(r.pos, [type |-> "Block", statements |-> r.node])])])

\* parse_function_declaration
ParseFunctionDeclaration(t, i) ==
    With([d \in {ParseFunctionDecorators(t, SkipComments(t, i), <<>>)} |->
        IF d.st # "ok" THEN d
        ELSE IF Cur(t, d.pos).type \notin {"FN", "FUNC"}
        THEN SyntaxError(<<"Expected 'func' or 'fn'", "got", Cur(t, d.pos).type>>)
        ELSE IF Cur(t, d.pos + 1).type # "IDENTIFIER"
        THEN SyntaxError(<<"Expected function name", "got", Cur(t, d.pos + 1).type>>)
        ELSE
        LET name == Cur(t, d.pos + 1).value
        IN  (
        With([g \in {(
                 IF Cur(t, d.pos + 2).type = "LESS_THAN"
                 THEN ParseFunctionGenerics(t, d.pos + 3, <<>>) ELSE Ok(d.pos + 2, <<>>)
        )} |->
            IF g.st # "ok" THEN g
            ELSE
            With([lp \in {SkipComments(t, g.pos)} |->
                IF Cur(t, lp).type # "LEFT_PAREN"
                THEN SyntaxError(<<"Expected '('", "got", Cur(t, lp).type>>)
                ELSE
                With([ps \in {(
                          IF Cur(t, lp + 1).type # "RIGHT_PAREN"
                          THEN ParseParams(t, lp + 1, <<>>) ELSE Ok(lp + 1, <<>>)
                )} |->
                    IF ps.st # "ok" THEN ps
                    ELSE
                    With([a \in {SkipComments(t, ps.pos + 1)} |->
                    With([rt \in {(
                              IF Cur(t, a).type = "ARROW"
                              THEN ParseRule("type_expression", t, SkipComments(t, a + 1))
                              ELSE Ok(a, NoneNode)
                    )} |->
                        IF rt.st # "ok" THEN rt
                        ELSE
                        With([lb \in {SkipComments(t, rt.pos)} |->
                            IF Cur(t, lb).type # "LEFT_BRACE"
                            THEN SyntaxError(<<"Expected '{'", "got", Cur(t, lb).type>>)
                            ELSE
                            With([b \in {ParseStatements(t, lb + 1, <<>>, "function body")} |->
                                IF b.st # "ok" THEN b
                                ELSE Ok(b.pos,
                                        [type |-> "FunctionDeclaration", name |-> name,
                                         genericParams |-> g.node, params |-> ps.node,
                                         returnType |-> rt.node,
                                         body |-> [type |-> "Block", statements |-> b.node],
                                         decorators |-> d.node])])])])])])])]))])

\* parse_variable_declaration: after the optional type annotation the code
\* reads TokenType.EQUAL
ParseVariableDeclaration(t, i) ==
    IF Cur(t, i + 1).type # "IDENTIFIER"
    THEN SyntaxError(<<"Expected variable name", "got", Cur(t, i + 1).type>>)
    ELSE
    With([vt \in {(
              IF Cur(t, i + 2).type = "COLON"
              THEN ParseRule("type_expression", t, i + 3) ELSE Ok(i + 2, NoneNode)
    )} |->
        IF vt.st # "ok" THEN vt
        ELSE IF "EQUAL" \notin TokenTypeNames THEN AttributeError("EQUAL")
        ELSE Ok(vt.pos, [type |-> "VariableDeclaration", name |-> Cur(t, i + 1).value,
                         varType |-> vt.node, initializer |-> NoneNode,
                         isAuto |-> Cur(t, i).type = "AUTO"])])

\* parse_if_statement
ParseIfStatement(t, i) ==
    With([e \in {Expect(t, i, "IF")} |->
        IF e.st # "ok" THEN e
        ELSE
        With([c \in {ParseRule("expression", t, e.pos)} |->
            IF c.st # "ok" THEN c
            ELSE
            With([th \in {ParseRule("block", t, c.pos)} |->
                IF th.st # "ok" THEN th
                ELSE
                With([el \in {(
                          IF Cur(t, th.pos).type = "ELSE"
                          THEN IF Cur(t, th.pos + 1).type = "IF"
                               THEN ParseIfStatement(t, th.pos + 1)
                               ELSE ParseRule("block", t, th.pos + 1)
                          ELSE Ok(th.pos, NoneNode)
                )} |->
                    IF el.st # "ok" THEN el
                    ELSE Ok(el.pos, [type |-> "IfStatement", condition |-> c.node,
                                     thenBranch |-> th.node, elseBranch |-> el.node])])])])])

\* parse_while_statement
ParseWhileStatement(t, i) ==
    With([e \in {Expect(t, i, "WHILE")} |->
        IF e.st # "ok" THEN e
        ELSE
        With([c \in {ParseRule("expression", t, e.pos)} |->
            IF c.st # "ok" THEN c
            ELSE
            With([b \in {ParseRule("block", t, c.pos)} |->
                IF b.st # "ok" THEN b
                ELSE Ok(b.pos, [type |-> "WhileStatement", condition |-> c.node,
                                body |-> b.node])])])])

\* parse_range_expression
ParseRangeExpression(t, i) ==
    With([j \in {SkipComments(t, i)} |->
        IF Cur(t, j).type # "RANGE"
        THEN SyntaxError(<<"Expected 'range'", "got", Cur(t, j).type>>)
        ELSE
        With([k \in {SkipComments(t, j + 1)} |->
            IF Cur(t, k).type # "LEFT_PAREN"
            THEN SyntaxError(<<"Expected '(' after range", "got", Cur(t, k).type>>)
            ELSE
            With([r1 \in {ParseRule("expression", t, SkipComments(t, k + 1))} |->
                IF r1.st # "ok" THEN r1
                ELSE
                With([m \in {SkipComments(t, r1.pos)} |->
                    IF Cur(t, m).type # "COMMA"
                    THEN SyntaxError(<<"Expected ',' after range start", "got", Cur(t, m).type>>)
                    ELSE
                    With([r2 \in {ParseRule("expression", t, SkipComments(t, m + 1))} |->
                        IF r2.st # "ok" THEN r2
                        ELSE
                        With([r3 \in {(
                                  IF Cur(t, r2.pos).type = "COMMA"
                                  THEN ParseRule("expression", t, SkipComments(t, r2.pos + 1))
                                  ELSE Ok(r2.pos, NoneNode)
                        )} |->
                            IF r3.st # "ok" THEN r3
                            ELSE
                            With([n \in {SkipComments(t, r3.pos)} |->
                                IF Cur(t, n).type # "RIGHT_PAREN"
                                THEN SyntaxError(<<"Expected ')' after range arguments",
                                                   "got", Cur(t, n).type>>)
                                ELSE Ok(n + 1, [type |-> "RangeExpression", start |-> r1.node,
                                                end |-> r2.node, step |-> r3.node])])])])])])])])

\* parse_for_statement
ParseForStatement(t, i) ==
    With([j \in {SkipComments(t, i)} |->
        IF Cur(t, j).type # "FOR" THEN SyntaxError(<<"Expected 'for'", "got", Cur(t, j).type>>)
        ELSE
        With([k \in {SkipComments(t, j + 1)} |->
            IF Cur(t, k).type # "IDENTIFIER"
            THEN SyntaxError(<<"Expected iterator variable name", "got", Cur(t, k).type>>)
            ELSE
            With([m \in {SkipComments(t, k + 1)} |->
                IF Cur(t, m).type # "IN"
                THEN SyntaxError(<<"Expected 'in'", "got", Cur(t, m).type>>)
                ELSE
                With([n \in {SkipComments(t, m + 1)} |->
                With([it \in {(
                          IF Cur(t, n).type = "RANGE"
                          THEN ParseRangeExpression(t, n) ELSE ParseRule("expression", t, n)
                )} |->
                    IF it.st # "ok" THEN it
                    ELSE
                    With([b \in {ParseRule("block", t, SkipComments(t, it.pos))} |->
                        IF b.st # "ok" THEN b
                        ELSE Ok(b.pos, [type |-> "ForStatement", iterator |-> Cur(t, k).value,
                                        iterable |-> it.node, body |-> b.node])])])])])])])

\* parse_return_statement
ParseReturnStatement(t, i) ==
    With([v \in {(
             IF Cur(t, i + 1).type # "SEMICOLON"
             THEN ParseRule("expression", t, i + 1) ELSE Ok(i + 1, NoneNode)
    )} |->
        IF v.st # "ok" THEN v
        ELSE Ok(v.pos, [type |-> "ReturnStatement", value |-> v.node])])

\* parse_spawn_statement
ParseSpawnStatement(t, i) ==
    With([e \in {Expect(t, i, "SPAWN")} |->
        IF e.st # "ok" THEN e
        ELSE
             With([r \in {ParseRule("expression", t, e.pos)} |->
                 IF r.st # "ok" THEN r
                 ELSE Ok(r.pos, [type |-> "SpawnStatement", expression |-> r.node])])])

\* parse_async_statement
ParseAsyncStatement(t, i) ==
    With([e \in {Expect(t, i, "ASYNC")} |->
        IF e.st # "ok" THEN e
        ELSE
             With([b \in {ParseRule("block", t, e.pos)} |->
                 IF b.st # "ok" THEN b
                 ELSE Ok(b.pos, [type |-> "AsyncStatement", body |-> b.node])])])

\* parse_expression_statement
ParseExpressionStatement(t, i) ==
    With([r \in {ParseRule("expression", t, i)} |->
        IF r.st # "ok" THEN r
        ELSE Ok(r.pos, [type |-> "ExpressionStatement", expression |-> r.node])])

\* parse_statement: the class has no method parse_class_declaration, and the
\* test for a raise statement reads TokenType.RAISE
ParseStatement(t, i) ==
    With([d \in {ParseDecorators(t, SkipComments(t, i), <<>>)} |->
        IF d.st # "ok" THEN d
        ELSE
        With([j \in {d.pos} |->
        With([ty \in {Cur(t, j).type} |->
            CASE ty \in {"FN", "FUNC"} ->
                   With([r \in {ParseRule("function_declaration", t, j)} |->
                       IF r.st # "ok" THEN r
                       ELSE Ok(r.pos, [r.node EXCEPT !.decorators = @ \o d.node])])
              [] ty = "CLASS" -> AttributeError("parse_class_declaration")
              [] ty \in {"LET", "AUTO"} -> ParseVariableDeclaration(t, j)
              [] ty = "IF" -> ParseIfStatement(t, j)
              [] ty = "WHILE" -> ParseWhileStatement(t, j)
              [] ty = "FOR" -> ParseForStatement(t, j)
              [] ty = "RET" -> ParseReturnStatement(t, j)
              [] ty = "SPAWN" -> ParseSpawnStatement(t, j)
              [] ty = "ASYNC" -> ParseAsyncStatement(t, j)
              [] OTHER -> IF "RAISE" \notin TokenTypeNames THEN AttributeError("RAISE")
                          ELSE ParseExpressionStatement(t, j)])])])

ParseRule(rule, t, i) ==
    CASE rule = "expression" -> ParseExpression(t, i)
      [] rule = "type_expression" -> ParseTypeExpression(t, i)
      [] rule = "block" -> ParseBlock(t, i)
      [] rule = "statement" -> ParseStatement(t, i)
      [] rule = "function_declaration" -> ParseFunctionDeclaration(t, i)

\* decl['decorators'] = decorators
SetDecorators(node, decs) ==
    [f \in DOMAIN node \cup {"decorators"} |-> IF f = "decorators" THEN decs ELSE node[f]]

\* parse_import
ParseImport(t, i) ==
    With([e \in {Expect(t, i, "IMPORT")} |->
        IF e.st # "ok" THEN e
        ELSE IF Cur(t, e.pos).type # "STRING"
        THEN SyntaxError(<<"Expected string literal for import module", "got", Cur(t, e.pos).type>>)
        ELSE
        With([hasHeader \in {Cur(t, e.pos + 1).type = "STRING"} |->
        LET k == IF hasHeader THEN e.pos + 2 ELSE e.pos + 1
        IN  (
        With([semi \in {Expect(t, k, "SEMICOLON")} |->
            IF semi.st # "ok" THEN semi
            ELSE Ok(semi.pos,
                    [type |-> "ImportDeclaration",
                     module |-> StripQuotes(Cur(t, e.pos).value),
                     header |-> IF hasHeader
                                THEN [type |-> "str", value |-> StripQuotes(Cur(t, e.pos + 1).value)]
                                ELSE NoneNode])]))])])

\* the while loop over the methods of parse_interface_declaration; it ends
\* with current_token on the '}'
RECURSIVE ParseInterfaceMethods(_, _, _)
ParseInterfaceMethods(t, i, methods) ==
    IF Cur(t, i).type = "RIGHT_BRACE" THEN Ok(i, methods)
    ELSE
    With([j \in {SkipComments(t, i)} |->
        IF Cur(t, j).type = "ABSTRACT"
        THEN
             With([r \in {ParseRule("function_declaration", t, j + 1)} |->
                 IF r.st # "ok" THEN r
                 ELSE ParseInterfaceMethods(t, r.pos, Append(methods, r.node))])
        ELSE SyntaxError(<<"Expected abstract method declaration", "got", Cur(t, j).type>>)])

\* parse_interface_declaration
ParseInterfaceDeclaration(t, i) ==
    With([e \in {Expect(t, i, "INTERFACE")} |->
        IF e.st # "ok" THEN e
        ELSE IF Cur(t, e.pos).type # "IDENTIFIER"
        THEN SyntaxError(<<"Expected interface name", "got", Cur(t, e.pos).type>>)
        ELSE
        With([lb \in {Expect(t, e.pos + 1, "LEFT_BRACE")} |->
            IF lb.st # "ok" THEN lb
            ELSE
            With([m \in {ParseInterfaceMethods(t, lb.pos, <<>>)} |->
                IF m.st # "ok" THEN m
                ELSE
                With([rb \in {Expect(t, m.pos, "RIGHT_BRACE")} |->
                    IF rb.st # "ok" THEN rb
                    ELSE Ok(rb.pos, [type |-> "InterfaceDeclaration",
                                     name |-> Cur(t, e.pos).value, methods |-> m.node])])])])])

\* the while loop of parse over the top-level declarations
RECURSIVE ParseDeclarations(_, _, _)
ParseDeclarations(t, i, decls) ==
    IF Cur(t, i).type = "EOF" THEN Ok(i, decls)
    ELSE
    With([d \in {ParseDecorators(t, SkipComments(t, i), <<>>)} |->
        IF d.st # "ok" THEN d
        ELSE
        With([ty \in {Cur(t, d.pos).type} |->
        With([r \in {(
                 CASE ty = "IMPORT" -> ParseImport(t, d.pos)
                   [] ty = "CLASS" -> AttributeError("parse_class_declaration")
                   [] ty = "INTERFACE" -> ParseInterfaceDeclaration(t, d.pos)
                   [] ty \in {"FN", "FUNC"} -> ParseRule("function_declaration", t, d.pos)
                   [] OTHER -> SyntaxError(<<"Unexpected token", ty>>)
        )} |->
            IF r.st # "ok" THEN r
            ELSE ParseDeclarations(t, r.pos,
                                   Append(decls, SetDecorators(r.node, d.node)))])])])

\* MetaForgeParser(tokens).parse(): [st |-> "ok", node |-> the Program] or
\* the exception that leaves parse
Parse(t) ==
    With([r \in {ParseDeclarations(t, 1, <<>>)} |->
        IF r.st # "ok" THEN r
        ELSE [st |-> "ok", node |-> [type |-> "Program", declarations |-> r.node]]])

\* ------------------------------------------------------------------------
\* semantic_analyzer.py
\* ------------------------------------------------------------------------
\* The scopes live in an arena: a scope is its index in the sequence scopes,
\* parent 0 is None.  symbols is the dict of the scope in insertion order
\* (a sequence of Symbol records with distinct names), children the list of
\* child scopes.
Symbol(name, type, data_type, scope, location, is_exported) ==
    [name |-> name, type |-> type, data_type |-> data_type, scope |-> scope,
     location |-> location, is_mutable |-> TRUE, is_exported |-> is_exported]

\* Scope(name, parent)
Scope(name, parent) ==
    [name |-> name, parent |-> parent, symbols |-> <<>>, children |-> <<>>]

\* name in self.symbols
Binds(sc, name) == \E i \in DOMAIN sc.symbols : sc.symbols[i].name = name

\* self.symbols[name]
SymbolOf(sc, name) == sc.symbols[CHOOSE i \in DOMAIN sc.symbols : sc.symbols[i].name = name]

\* a plausible slip of add_symbol: the later declaration replaces the first
AddSymbolOverwrite(sc, symbol) ==
    [scope |-> [sc EXCEPT !.symbols =
                    IF Binds(sc, symbol.name)
                    THEN [i \in DOMAIN @ |-> IF @[i].name = symbol.name THEN symbol ELSE @[i]]
                    ELSE Append(@, symbol)],
     ret |-> TRUE]

\* Scope.add_symbol: the scope after the call and the value returned
AddSymbol(sc, symbol) ==
    IF Binds(sc, symbol.name)
    THEN [scope |-> sc, ret |-> FALSE]
    ELSE [scope |-> [sc EXCEPT !.symbols = Append(@, symbol)], ret |-> TRUE]

\* a plausible slip of lookup: the enclosing scopes are asked first
RECURSIVE LookupOuterFirst(_, _, _)
LookupOuterFirst(scs, sid, name) ==
    With([up \in {(
              IF scs[sid].parent # 0 THEN LookupOuterFirst(scs, scs[sid].parent, name)
              ELSE NoneNode
    )} |->
        IF up # NoneNode THEN up
        ELSE IF Binds(scs[sid], name) THEN SymbolOf(scs[sid], name)
        ELSE NoneNode])

\* Scope.lookup, on the scope sid of the arena scs
RECURSIVE Lookup(_, _, _)
Lookup(scs, sid, name) ==
    IF Binds(scs[sid], name) THEN SymbolOf(scs[sid], name)
    ELSE IF scs[sid].parent # 0 THEN Lookup(scs, scs[sid].parent, name)
    ELSE NoneNode

\* Scope(name, parent) followed by parent.add_child(child): the arena after
AddChildScope(scs, parent, name) ==
    Append([scs EXCEPT ![parent].children = Append(@, Len(scs) + 1)], Scope(name, parent))

\* SemanticAnalyzer.__init__; raised is the exception in flight inside analyze
NewAnalyzer ==
    [scopes |-> <<Scope("global", 0)>>, current_scope |-> 1, errors |-> <<>>,
     warnings |-> <<>>, used_symbols |-> {}, raised |-> ""]

\* node.get(key, default)
Get(node, key, default) == IF key \in DOMAIN node THEN node[key] ELSE default

RECURSIVE CollectSymbols(_, _, _), CollectList(_, _, _)

\* for n in nodes: self._collect_symbols(n, scope)
CollectList(A, nodes, scope) ==
    IF nodes = <<>> \/ A.raised # "" THEN A
    ELSE CollectList(CollectSymbols(A, Head(nodes), scope), Tail(nodes), scope)

\* SemanticAnalyzer._collect_symbols
CollectSymbols(A, node, scope) ==
    CASE node.type = "Program" -> CollectList(A, node.declarations, scope)
      [] node.type = "Function" ->
           LET symbol ==
                         Symbol(node.name, "FUNCTION", node.return_type, scope,
                                <<Get(node, "line", 0), Get(node, "column", 0)>>,
                                Get(node, "exported", FALSE))
           IN  (
           With([r \in {AddSymbol(A.scopes[A.current_scope], symbol)} |->
               IF ~r.ret
               THEN [A EXCEPT !.errors = Append(@, "Symbol " \o node.name
                                                   \o " already defined in scope " \o scope)]
               ELSE
               With([fname \in {scope \o "." \o node.name} |->
               With([old_scope \in {A.current_scope} |->
               LET A1 ==
                         [A EXCEPT !.scopes = AddChildScope(
                                       [@ EXCEPT ![old_scope] = r.scope], old_scope, fname),
                                   !.current_scope = Len(A.scopes) + 1]
               IN  (
               With([A2 \in {CollectList(A1, Get(node, "params", <<>>), fname)} |->
               With([A3 \in {(
                         IF "body" \in DOMAIN node /\ A2.raised = ""
                         THEN CollectSymbols(A2, node.body, fname) ELSE A2
               )} |->
                   IF A3.raised # "" THEN A3 ELSE [A3 EXCEPT !.current_scope = old_scope]])]))])])])
           )
      [] node.type = "Block" ->
           With([bname \in {(
                        scope \o ".block"
                        \o Join(IntStr(Len(A.scopes[A.current_scope].children)))
           )} |->
           With([old_scope \in {A.current_scope} |->
           LET A1 ==
                     [A EXCEPT !.scopes = AddChildScope(@, old_scope, bname),
                               !.current_scope = Len(A.scopes) + 1]
           IN  (
           With([A2 \in {CollectList(A1, Get(node, "statements", <<>>), bname)} |->
               IF A2.raised # "" THEN A2 ELSE [A2 EXCEPT !.current_scope = old_scope]]))])])
      [] OTHER -> A

RECURSIVE CheckTypes(_, _), CheckTypesList(_, _)

\* for decl in node['declarations']: self._check_types(decl)
CheckTypesList(A, nodes) ==
    IF nodes = <<>> \/ A.raised # "" THEN A
    ELSE CheckTypesList(CheckTypes(A, Head(nodes)), Tail(nodes))

\* SemanticAnalyzer._check_types
CheckTypes(A, node) ==
    CASE node.type = "Program" -> CheckTypesList(A, node.declarations)
      [] node.type = "Function" ->
           With([A1 \in {(
                     IF node.return_type \notin {"i32", "void"}
                     THEN [A EXCEPT !.errors = Append(@, "Invalid return type: " \o node.return_type)]
                     ELSE A
           )} |->
               IF "body" \in DOMAIN node THEN CheckTypes(A1, node.body) ELSE A1])
      [] node.type = "FunctionCall" ->
           With([symbol \in {Lookup(A.scopes, A.current_scope, node.name)} |->
               IF symbol = NoneNode \/ symbol.type # "FUNCTION"
               THEN [A EXCEPT !.errors = Append(@, "Undefined function: " \o node.name)]
               ELSE [A EXCEPT !.used_symbols = @ \cup {node.name}]])
      [] node.type = "Return" ->
           IF node.value.type = "NumberLiteral" THEN A
           ELSE [A EXCEPT !.errors = Append(@, "Unsupported return type: " \o node.value.type)]
      [] OTHER -> A

\* SemanticAnalyzer._has_return_path
RECURSIVE HasReturnPath(_)
HasReturnPath(node) ==
    CASE node.type = "Return" -> TRUE
      [] node.type = "Block" ->
           With([stmts \in {Get(node, "statements", <<>>)} |->
               \E i \in DOMAIN stmts : HasReturnPath(stmts[i])])
      [] OTHER -> FALSE

\* SemanticAnalyzer._analyze_control_flow: it looks at the node it is given
\* only, which analyze makes the Program
AnalyzeControlFlow(A, node) ==
    IF node.type = "Function"
    THEN IF "body" \notin DOMAIN node THEN [A EXCEPT !.raised = "KeyError"]
         ELSE IF ~HasReturnPath(node.body)
         THEN [A EXCEPT !.warnings = Append(@, "Function " \o node.name
                                               \o " may not return a value in all paths")]
         ELSE A
    ELSE A

\* SemanticAnalyzer._all_scopes: the scopes in DFS order from the scope sid
RECURSIVE AllScopes(_, _), AllScopesList(_, _)
AllScopes(scs, sid) == <<sid>> \o AllScopesList(scs, scs[sid].children)

AllScopesList(scs, ids) ==
    IF ids = <<>> THEN <<>> ELSE AllScopes(scs, Head(ids)) \o AllScopesList(scs, Tail(ids))

\* the warnings of one scope in _check_unused_symbols
RECURSIVE UnusedWarnings(_, _)
UnusedWarnings(syms, used) ==
    IF syms = <<>> THEN <<>>
    ELSE (IF Head(syms).name \notin used /\ ~Head(syms).is_exported
          THEN <<"Symbol " \o Head(syms).name \o " is never used">> ELSE <<>>)
         \o UnusedWarnings(Tail(syms), used)

RECURSIVE UnusedOfScopes(_, _, _)
UnusedOfScopes(scs, ids, used) ==
    IF ids = <<>> THEN <<>>
    ELSE UnusedWarnings(scs[Head(ids)].symbols, used) \o UnusedOfScopes(scs, Tail(ids), used)

\* SemanticAnalyzer._check_unused_symbols
CheckUnusedSymbols(A) ==
    [A EXCEPT !.warnings = @ \o UnusedOfScopes(A.scopes, AllScopes(A.scopes, 1), A.used_symbols)]

\* SemanticAnalyzer._check_circular_dependencies: no symbol is ever given
\* references, so that visit finds no cycle
CheckCircularDependencies(A) == A

\* SemanticAnalyzer._validate_exports: the class defines neither
\* _check_exported_struct nor _check_exported_function
ValidateExports(A) ==
    IF \E i \in DOMAIN A.scopes[1].symbols :
          A.scopes[1].symbols[i].is_exported
          /\ A.scopes[1].symbols[i].type \in {"STRUCT", "FUNCTION"}
    THEN [A EXCEPT !.raised = "AttributeError"]
    ELSE A

\* SemanticAnalyzer.analyze: the analyzer after the call and the value returned
Analyze(A0, ast) ==
    With([A1 \in {CollectSymbols([A0 EXCEPT !.raised = ""], ast, "global")} |->
    With([A2 \in {IF A1.raised = "" THEN CheckTypes(A1, ast) ELSE A1} |->
    With([A3 \in {IF A2.raised = "" THEN AnalyzeControlFlow(A2, ast) ELSE A2} |->
    With([A4 \in {IF A3.raised = "" THEN CheckUnusedSymbols(A3) ELSE A3} |->
    With([A5 \in {IF A4.raised = "" THEN CheckCircularDependencies(A4) ELSE A4} |->
    With([A6 \in {IF A5.raised = "" THEN ValidateExports(A5) ELSE A5} |->
        IF A6.raised # ""
        THEN [analyzer |-> [A6 EXCEPT !.errors = Append(@, "Fatal semantic error: " \o A6.raised),
                                      !.raised = ""],
              ret |-> FALSE]
        ELSE [analyzer |-> A6, ret |-> Len(A6.errors) = 0]])])])])])])

\* ------------------------------------------------------------------------
\* ir_generator.py
\* ------------------------------------------------------------------------
\* IRInstruction(op, args, result); result "None" is None
IRInstruction(op, args, result) == [op |-> op, args |-> args, result |-> result]

\* IRGenerator.__init__; string_literals and vtables are dicts in insertion
\* order; raised is the exception in flight inside generate
NewIRGenerator ==
    [instructions |-> <<>>, temp_counter |-> 0, label_counter |-> 0,
     current_function |-> "None", current_class |-> "None",
     string_literals |-> <<>>, vtables |-> <<>>, raised |-> ""]

Emit(G, instr) == [G EXCEPT !.instructions = Append(@, instr)]

\* IRGenerator._new_temp: the name, the generator after is NextTemp
TempName(G) == "t" \o Join(IntStr(G.temp_counter))

NextTemp(G) == [G EXCEPT !.temp_counter = @ + 1]

\* IRGenerator._new_label
LabelName(G) == "L" \o Join(IntStr(G.label_counter))

NextLabel(G) == [G EXCEPT !.label_counter = @ + 1]

\* self.vtables.get(name, [])
VtableOf(G, name) ==
    IF \E i \in DOMAIN G.vtables : G.vtables[i].name = name
    THEN G.vtables[CHOOSE i \in DOMAIN G.vtables : G.vtables[i].name = name].vtable
    ELSE <<>>

\* self.vtables[name] = vtable
SetVtable(G, name, vtable) ==
    IF \E i \in DOMAIN G.vtables : G.vtables[i].name = name
    THEN [G EXCEPT !.vtables = [i \in DOMAIN @ |->
                        IF @[i].name = name THEN [name |-> name, vtable |-> vtable] ELSE @[i]]]
    ELSE [G EXCEPT !.vtables = Append(@, [name |-> name, vtable |-> vtable])]

\* the loop over the members of a class in _collect_class_info: a method
\* takes the slot of the entry of its name, or a new last slot
RECURSIVE VtableWithMembers(_, _, _)
VtableWithMembers(vtable, class_name, members) ==
    IF members = <<>> THEN vtable
    ELSE
         With([member \in {Head(members)} |->
         With([entry \in {(
                      [name |-> member.name, impl |-> class_name \o "_" \o member.name]
         )} |->
             VtableWithMembers(
                IF member.type # "MethodDeclaration" THEN vtable
                ELSE IF \E i \in DOMAIN vtable : vtable[i].name = member.name
                THEN
                     LET k ==
                              CHOOSE i \in DOMAIN vtable :
                                 /\ vtable[i].name = member.name
                                 /\ \A j \in 1..(i - 1) : vtable[j].name # member.name
                     IN  (
                         [vtable EXCEPT ![k] = entry])
                ELSE Append(vtable, entry),
                class_name, Tail(members))])])

\* IRGenerator._collect_class_info, on the declarations still to visit
RECURSIVE CollectClassInfo(_, _)
CollectClassInfo(G, decls) ==
    IF decls = <<>> THEN G
    ELSE
         With([decl \in {Head(decls)} |->
             CollectClassInfo(
                IF decl.type = "ClassDeclaration"
                THEN SetVtable(G, decl.name,
                        VtableWithMembers(
                            IF "extends" \in DOMAIN decl THEN VtableOf(G, decl.extends) ELSE <<>>,
                            decl.name, decl.body))
                ELSE G,
                Tail(decls))])

\* op_map of a binary expression and of a unary expression
BinaryOpMap ==
    [o \in {"+", "-", "*", "/", "<", "<=", ">", ">=", "==", "!=", "&&", "||"} |->
        CASE o = "+" -> "add" [] o = "-" -> "sub" [] o = "*" -> "mul" [] o = "/" -> "div"
          [] o = "<" -> "lt" [] o = "<=" -> "le" [] o = ">" -> "gt" [] o = ">=" -> "ge"
          [] o = "==" -> "eq" [] o = "!=" -> "ne" [] o = "&&" -> "and" [] o = "||" -> "or"]

UnaryOpMap ==
    [o \in {"-", "!", "~"} |-> CASE o = "-" -> "neg" [] o = "!" -> "not" [] o = "~" -> "bit_not"]

\* self.string_literals[value], "None" when value is not a key
StringLabel(G, value) ==
    IF \E i \in DOMAIN G.string_literals : G.string_literals[i].value = value
    THEN G.string_literals[CHOOSE i \in DOMAIN G.string_literals :
                                G.string_literals[i].value = value].label
    ELSE "None"

RECURSIVE GenerateExpression(_, _), GenerateArguments(_, _, _)

\* [self._generate_expression(arg) for arg in arguments]: val is the list
GenerateArguments(G, args, vals) ==
    IF args = <<>> \/ G.raised # "" THEN [g |-> G, val |-> vals]
    ELSE
         With([r \in {GenerateExpression(G, Head(args))} |->
             GenerateArguments(r.g, Tail(args), Append(vals, r.val))])

\* IRGenerator._generate_expression: the generator after and the name returned
GenerateExpression(G, expr) ==
    CASE expr.type = "NumberLiteral" ->
           [g |-> Emit(NextTemp(G), IRInstruction("load_const", <<Join(IntStr(expr.value))>>,
                                                  TempName(G))),
            val |-> TempName(G)]
      [] expr.type = "StringLiteral" ->
           With([G1 \in {(
                     IF StringLabel(G, expr.value) = "None"
                     THEN
                          With([label \in {"str_" \o Join(IntStr(Len(G.string_literals)))} |->
                              Emit([G EXCEPT !.string_literals =
                                        Append(@, [value |-> expr.value, label |-> label])],
                                   IRInstruction("string", <<expr.value>>, label))])
                     ELSE G
           )} |->
               [g |-> Emit(NextTemp(G1), IRInstruction("load_string",
                                <<StringLabel(G1, expr.value)>>, TempName(G1))),
                val |-> TempName(G1)]])
      [] expr.type = "BinaryExpression" ->
           With([l \in {GenerateExpression(G, expr.left)} |->
           With([r \in {IF l.g.raised = "" THEN GenerateExpression(l.g, expr.right) ELSE l} |->
               IF r.g.raised # "" THEN r
               ELSE IF expr.operator \notin DOMAIN BinaryOpMap
               THEN [g |-> [NextTemp(r.g) EXCEPT !.raised = "KeyError"], val |-> "None"]
               ELSE [g |-> Emit(NextTemp(r.g), IRInstruction(BinaryOpMap[expr.operator],
                                    <<l.val, r.val>>, TempName(r.g))),
                     val |-> TempName(r.g)]])])
      [] expr.type = "UnaryExpression" ->
           With([o \in {GenerateExpression(G, expr.operand)} |->
               IF o.g.raised # "" THEN o
               ELSE IF expr.operator \notin DOMAIN UnaryOpMap
               THEN [g |-> [NextTemp(o.g) EXCEPT !.raised = "KeyError"], val |-> "None"]
               ELSE [g |-> Emit(NextTemp(o.g), IRInstruction(UnaryOpMap[expr.operator],
                                    <<o.val>>, TempName(o.g))),
                     val |-> TempName(o.g)]])
      [] expr.type = "CallExpression" ->
           IF expr.callee.type = "MemberAccess"
           THEN
                With([o \in {GenerateExpression(G, expr.callee.object)} |->
                    IF o.g.raised # "" THEN o
                    ELSE
                    With([vtable \in {TempName(o.g)} |->
                    With([G1 \in {(
                              Emit(NextTemp(o.g), IRInstruction("load_vtable", <<o.val>>, vtable))
                    )} |->
                    With([method_ptr \in {TempName(G1)} |->
                    LET G2 ==
                              Emit(NextTemp(G1), IRInstruction("vtable_method",
                                        <<vtable, expr.callee.member>>, method_ptr))
                    IN  (
                    With([a \in {GenerateArguments(G2, expr.arguments, <<>>)} |->
                        IF a.g.raised # "" THEN a
                        ELSE [g |-> Emit(NextTemp(a.g), IRInstruction("call_method",
                                        <<method_ptr, o.val>> \o a.val, TempName(a.g))),
                              val |-> TempName(a.g)]]))])])])])
           ELSE
                With([a \in {GenerateArguments(G, expr.arguments, <<>>)} |->
                    IF a.g.raised # "" THEN a
                    ELSE [g |-> Emit(NextTemp(a.g), IRInstruction("call",
                                        <<expr.callee.name>> \o a.val, TempName(a.g))),
                          val |-> TempName(a.g)]])
      [] expr.type = "MemberAccess" ->
           With([o \in {GenerateExpression(G, expr.object)} |->
               IF o.g.raised # "" THEN o
               ELSE [g |-> Emit(NextTemp(o.g), IRInstruction("get_field",
                                    <<o.val, expr.member>>, TempName(o.g))),
                     val |-> TempName(o.g)]])
      [] expr.type = "Identifier" ->
           [g |-> Emit(NextTemp(G), IRInstruction("load", <<expr.name>>, TempName(G))),
            val |-> TempName(G)]
      [] expr.type \in {"ThisExpression", "SuperExpression"} -> [g |-> G, val |-> "this"]
      [] expr.type = "NewExpression" ->
           With([size \in {TempName(G)} |->
           With([G1 \in {(
                     Emit(NextTemp(G), IRInstruction("sizeof", <<expr.className>>, size))
           )} |->
           With([obj \in {TempName(G1)} |->
           LET G2 == Emit(NextTemp(G1), IRInstruction("alloc", <<size>>, obj))
           IN  (
           LET G3 ==
                     Emit(G2, IRInstruction("set_vtable",
                                <<obj, "vtable_" \o expr.className>>, "None"))
           IN  (
           LET G4 ==
                     Emit(G3, IRInstruction("call", <<expr.className \o "_init", obj>>, "None"))
           IN  (
               [g |-> G4, val |-> obj])))])])])
      [] OTHER -> [g |-> NextTemp(G), val |-> TempName(G)]

RECURSIVE GenerateStatement(_, _), GenerateStatements(_, _)

\* for s in stmts: self._generate_statement(s)
GenerateStatements(G, stmts) ==
    IF stmts = <<>> \/ G.raised # "" THEN G
    ELSE GenerateStatements(GenerateStatement(G, Head(stmts)), Tail(stmts))

\* IRGenerator._generate_statement
GenerateStatement(G, stmt) ==
    CASE stmt.type = "VariableDeclaration" ->
           With([v \in {GenerateExpression(G, stmt.initializer)} |->
               IF v.g.raised # "" THEN v.g
               ELSE Emit(v.g, IRInstruction("store", <<v.val>>, stmt.name))])
      [] stmt.type = "ExpressionStatement" -> GenerateExpression(G, stmt.expression).g
      [] stmt.type = "ReturnStatement" ->
           IF stmt.value # NoneNode
           THEN
                With([v \in {GenerateExpression(G, stmt.value)} |->
                    IF v.g.raised # "" THEN v.g
                    ELSE Emit(v.g, IRInstruction("return", <<v.val>>, "None"))])
           ELSE Emit(G, IRInstruction("return_void", <<>>, "None"))
      [] stmt.type = "IfStatement" ->
           With([c \in {GenerateExpression(G, stmt.condition)} |->
               IF c.g.raised # "" THEN c.g
               ELSE
               With([else_label \in {LabelName(c.g)} |->
               With([end_label \in {LabelName(NextLabel(c.g))} |->
               LET G1 ==
                         Emit(NextLabel(NextLabel(c.g)),
                              IRInstruction("branch_false", <<c.val, else_label>>, "None"))
               IN  (
               With([G2 \in {GenerateStatements(G1, stmt.thenBranch)} |->
                   IF G2.raised # "" THEN G2
                   ELSE
                   With([G3 \in {(
                             Emit(Emit(G2, IRInstruction("jump", <<end_label>>, "None")),
                                  IRInstruction("label", <<else_label>>, "None"))
                   )} |->
                   With([G4 \in {(
                             IF stmt.elseBranch # <<>>
                             THEN GenerateStatements(G3, stmt.elseBranch) ELSE G3
                   )} |->
                       IF G4.raised # "" THEN G4
                       ELSE Emit(G4, IRInstruction("label", <<end_label>>, "None"))])])]))])])])
      [] stmt.type = "WhileStatement" ->
           With([start_label \in {LabelName(G)} |->
           With([end_label \in {LabelName(NextLabel(G))} |->
           LET G1 ==
                     Emit(NextLabel(NextLabel(G)), IRInstruction("label", <<start_label>>, "None"))
           IN  (
           With([c \in {GenerateExpression(G1, stmt.condition)} |->
               IF c.g.raised # "" THEN c.g
               ELSE
               With([G2 \in {(
                         GenerateStatements(
                             Emit(c.g, IRInstruction("branch_false", <<c.val, end_label>>, "None")),
                             stmt.body)
               )} |->
                   IF G2.raised # "" THEN G2
                   ELSE Emit(Emit(G2, IRInstruction("jump", <<start_label>>, "None")),
                             IRInstruction("label", <<end_label>>, "None"))])]))])])
      [] OTHER -> G

\* store_param i -> name for the parameters from index i on
RECURSIVE StoreParams(_, _, _)
StoreParams(G, params, i) ==
    IF params = <<>> THEN G
    ELSE StoreParams(Emit(G, IRInstruction("store_param", <<Join(IntStr(i))>>, Head(params).name)),
                     Tail(params), i + 1)

\* the epilogue shared by _generate_function and _generate_method
\* (a list that is None is written <<>> and a returnType that is None "":
\* the code asks whether they are falsy)
Epilogue(G, decl) ==
    LET G1 ==
              IF decl.returnType = "" \/ decl.returnType = "void"
              THEN Emit(G, IRInstruction("return_void", <<>>, "None")) ELSE G
    IN  (
        [Emit(G1, IRInstruction("leave", <<>>, "None")) EXCEPT !.current_function = "None"])

\* IRGenerator._generate_function: a declaration without the key
\* 'parameters' raises KeyError after the label has been appended
GenerateFunction(G, func) ==
    With([G1 \in {(
              Emit([G EXCEPT !.current_function = func.name],
                   IRInstruction("label", <<func.name>>, "None"))
    )} |->
        IF "parameters" \notin DOMAIN func THEN [G1 EXCEPT !.raised = "KeyError"]
        ELSE
        LET G2 ==
                  Emit(G1, IRInstruction("enter", <<Join(IntStr(Len(func.parameters)))>>, "None"))
        IN  (
        With([G3 \in {StoreParams(G2, func.parameters, 0)} |->
        With([G4 \in {(
                  IF func.body # <<>>
                  THEN GenerateStatements(G3, func.body) ELSE G3
        )} |->
            IF G4.raised # "" THEN G4 ELSE Epilogue(G4, func)])]))])

\* IRGenerator._generate_method
GenerateMethod(G, method) ==
    With([fname \in {G.current_class \o "_" \o method.name} |->
    LET G1 ==
              Emit([G EXCEPT !.current_function = fname],
                   IRInstruction("label", <<fname>>, "None"))
    IN  (
    LET G2 ==
              Emit(G1, IRInstruction("enter",
                        <<Join(IntStr(Len(method.parameters) + 1))>>, "None"))
    IN  (
    With([G3 \in {(
              StoreParams(Emit(G2, IRInstruction("store_param", <<"0">>, "this")),
                          method.parameters, 1)
    )} |->
    With([G4 \in {(
              IF method.body # <<>>
              THEN GenerateStatements(G3, method.body) ELSE G3
    )} |->
        IF G4.raised # "" THEN G4 ELSE Epilogue(G4, method)])])))])

\* the vtable_entry instructions of a class
RECURSIVE EmitVtableEntries(_, _, _)
EmitVtableEntries(G, vtable_label, vtable) ==
    IF vtable = <<>> THEN G
    ELSE EmitVtableEntries(
            Emit(G, IRInstruction("vtable_entry",
                        <<vtable_label, Head(vtable).name, Head(vtable).impl>>, "None")),
            vtable_label, Tail(vtable))

\* the loop over the members of a class in _generate_declaration
RECURSIVE GenerateMethods(_, _)
GenerateMethods(G, members) ==
    IF members = <<>> \/ G.raised # "" THEN G
    ELSE GenerateMethods(
            IF Head(members).type = "MethodDeclaration"
            THEN GenerateMethod(G, Head(members)) ELSE G,
            Tail(members))

\* IRGenerator._generate_declaration
GenerateDeclaration(G, decl) ==
    CASE decl.type = "ClassDeclaration" ->
           With([vtable_label \in {"vtable_" \o decl.name} |->
           LET G1 ==
                     Emit([G EXCEPT !.current_class = decl.name],
                          IRInstruction("vtable", <<decl.name>>, vtable_label))
           IN  (
           LET G2 == EmitVtableEntries(G1, vtable_label, VtableOf(G, decl.name))
           IN  (
           With([G3 \in {GenerateMethods(G2, decl.body)} |->
               IF G3.raised # "" THEN G3 ELSE [G3 EXCEPT !.current_class = "None"]])))])
      [] decl.type = "FunctionDeclaration" -> GenerateFunction(G, decl)
      [] OTHER -> G

RECURSIVE GenerateDeclarations(_, _)
GenerateDeclarations(G, decls) ==
    IF decls = <<>> \/ G.raised # "" THEN G
    ELSE GenerateDeclarations(GenerateDeclaration(G, Head(decls)), Tail(decls))

\* IRGenerator.generate: the generator after the call and the list returned
\* (self.instructions, or [] when an exception was caught)
Generate(G0, ast) ==
    LET G1 == CollectClassInfo([G0 EXCEPT !.raised = ""], ast.declarations)
    IN  (
    With([G2 \in {GenerateDeclarations(G1, ast.declarations)} |->
        IF G2.raised # ""
        THEN [generator |-> [G2 EXCEPT !.raised = ""], ret |-> <<>>]
        ELSE [generator |-> G2, ret |-> G2.instructions]]))

\* ------------------------------------------------------------------------
\* diagnostics.py
\* ------------------------------------------------------------------------
\* a plausible slip of emit_error: the diagnostic is printed, not recorded
EmitErrorUnrecorded(D, message, code) == D

\* DiagnosticEmitter.emit_error(message, file, code=code) with emit: the
\* list self.diagnostics after the call (line and column keep their
\* default 1)
EmitError(D, message, code) ==
    Append(D, [level |-> "error", code |-> code, message |-> message,
               line |-> 1, column |-> 1])

\* ------------------------------------------------------------------------
\* pipeline.py
\* ------------------------------------------------------------------------
\* CompilationPipeline.__init__: the analyzer and the generator live as
\* long as the pipeline
NewPipeline == [semantic_analyzer |-> NewAnalyzer, ir_generator |-> NewIRGenerator]

\* a plausible slip of the loop below: the first error only is reported
EmitFirstAnalyzerError(D, errors) ==
    IF errors = <<>> THEN D ELSE EmitError(D, Head(errors), "TYPE_ERROR")

\* for error in self.semantic_analyzer.errors: self.diagnostic.emit_error(...)
RECURSIVE EmitAnalyzerErrors(_, _)
EmitAnalyzerErrors(D, errors) ==
    IF errors = <<>> THEN D
    ELSE EmitAnalyzerErrors(EmitError(D, Head(errors), "TYPE_ERROR"), Tail(errors))

\* the handler except Exception of compile: the text of str(e) is kept as
\* the class of the exception
CompileFailed(P, D, stages, exc, ir) ==
    [pipeline |-> P,
     diagnostics |-> EmitError(D, "Compilation failed: " \o exc, "COMPILATION_ERROR"),
     ret |-> FALSE, stages |-> stages, analyzed |-> "SEMANTIC" \in Range(stages),
     generated |-> "IR_GEN" \in Range(stages), ir |-> ir]

\* CompilationPipeline.compile on the pipeline P with the sink D and the
\* source file: the pipeline and the sink after the call, the value
\* returned, the stages update_stage was given, whether analyze and generate
\* were called, and the local ir ("unset" before its assignment).  generate
\* returns a list, so ir.get raises AttributeError and the statements after
\* it (optimization, native compilation, return True) are never reached.
Compile(P, D, file) ==
    IF ~file.exists THEN CompileFailed(P, D, <<"LEXICAL">>, "FileNotFoundError", "unset")
    ELSE
    With([lexed \in {Tokenize(file.text)} |->
        IF lexed.st # "ok" THEN CompileFailed(P, D, <<"LEXICAL">>, lexed.st, "unset")
        ELSE
        With([parsed \in {Parse(lexed.tokens)} |->
            IF parsed.st # "ok"
            THEN CompileFailed(P, D, <<"LEXICAL", "PARSING">>, parsed.st, "unset")
            ELSE
            With([a \in {Analyze(P.semantic_analyzer, parsed.node)} |->
            With([P1 \in {[P EXCEPT !.semantic_analyzer = a.analyzer]} |->
                IF ~a.ret
                THEN [pipeline |-> P1,
                      diagnostics |-> EmitAnalyzerErrors(D, a.analyzer.errors),
                      ret |-> FALSE, stages |-> <<"LEXICAL", "PARSING", "SEMANTIC">>,
                      analyzed |-> TRUE, generated |-> FALSE, ir |-> "unset"]
                ELSE
                With([g \in {Generate(P1.ir_generator, parsed.node)} |->
                LET P2 == [P1 EXCEPT !.ir_generator = g.generator]
                IN  (
                    CompileFailed(P2, D, <<"LEXICAL", "PARSING", "SEMANTIC", "IR_GEN">>,
                                  "AttributeError", g.ret))])])])])])

\* ------------------------------------------------------------------------
\* compile_metaforge.py
\* ------------------------------------------------------------------------
\* compile_metaforge.main: the value it returns, which sys.exit is given.
\* The DiagnosticEmitter and the CompilationPipeline are built by the run;
\* create_backend raises NotImplementedError for a platform it does not
\* support
Main(file, supported) ==
    IF ~file.exists \/ ~supported THEN [compiled |-> FALSE, ret |-> FALSE, code |-> 1]
    ELSE
         With([c \in {Compile(NewPipeline, <<>>, file)} |->
             [compiled |-> TRUE, ret |-> c.ret, code |-> IF c.ret THEN 0 ELSE 1]])

\* ------------------------------------------------------------------------
\* The state
\* ------------------------------------------------------------------------
VARIABLES
    source,       \* MetaForgeLexer.source, a sequence of characters
    lexed,        \* what tokenize() gave for source, st = "none" before it ran
    parsed,       \* what MetaForgeParser(tokens).parse() gave for the tokens
    parsedPlain,  \* what parse() gave for the tokens without the COMMENT tokens
    scopes,       \* a tree of Scope objects, each the index of its parent
    found,        \* the last Scope.lookup call and the value it returned
    analyzer,     \* a SemanticAnalyzer
    program,      \* the AST a client gives to analyzer.analyze
    analysis,     \* the last analyze call: the analyzer before it and its value
    pipeline,     \* a CompilationPipeline: its analyzer and its IR generator
    diagnostics,  \* DiagnosticEmitter.diagnostics of the pipeline's sink
    log,          \* the calls made on the pipeline and its analyzer, in order
    exit,         \* the last run of main: the value given to sys.exit
    generator,    \* an IRGenerator
    tree,         \* the AST a client gives to generator.generate
    produced,     \* what generate returned for tree, st = "none" before it ran
    opt,          \* an IROptimizer: the list given to it, its blocks, and what
                  \* optimize returned for the list and for its own output
    alloc,        \* a RegisterAllocator and the ir_function given to it
    asm,          \* an X64Assembler and the instruction list given to it
    pe            \* a PEGenerator and a WindowsBackend, the output path, the system

vars == <<source, lexed, parsed, parsedPlain, scopes, found, analyzer, program,
          analysis, pipeline, diagnostics, log, exit, generator, tree, produced,
          opt, alloc, asm, pe>>

frontVars == <<source, lexed, parsed, parsedPlain>>

scopeVars == <<scopes, found>>

analyzerVars == <<analyzer, program, analysis>>

pipelineVars == <<pipeline, diagnostics, log, exit>>

irVars == <<generator, tree, produced>>

\* the objects of the IR generator and of the back end
backVars == <<irVars, opt, alloc, asm, pe>>

\* the objects of the lexer, the parser, the analyzer and the pipeline
midVars == <<frontVars, scopeVars, analyzerVars, pipelineVars>>

NotRun == [st |-> "none"]

\* the objects of the front end before any input is given
FrontIdle == source = <<>> /\ lexed = NotRun /\ parsed = NotRun /\ parsedPlain = NotRun

\* Scope("global") alone, no lookup made
ScopeIdle == scopes = <<Scope("global", 0)>> /\ found = [called |-> FALSE]

\* SemanticAnalyzer() before analyze
AnalyzerIdle ==
    analyzer = NewAnalyzer /\ program = [type |-> "Program", declarations |-> <<>>]
    /\ analysis = [called |-> FALSE, calls |-> 0]

\* CompilationPipeline(DiagnosticEmitter(), backend) before compile
PipelineIdle ==
    pipeline = NewPipeline /\ diagnostics = <<>> /\ log = <<>> /\ exit = [ran |-> FALSE]

\* IRGenerator() before generate
IrIdle ==
    generator = NewIRGenerator /\ tree = [type |-> "Program", declarations |-> <<>>]
    /\ produced = NotRun

\* no list given to an IROptimizer yet
OptIdle == opt = [ir |-> <<>>, blocks |-> <<>>, once |-> NotRun, twice |-> NotRun]

\* RegisterAllocator.__init__, no function given to it yet
AllocIdle ==
    alloc = [fn |-> [blocks |-> <<>>, stack_size |-> 0], live_ranges |-> <<>>,
             interference_graph |-> [nodes |-> <<>>, edges |-> {}],
             coloring |-> <<>>, spilled_vars |-> {}, calls |-> 0]

\* X64Assembler.__init__, no list given to it yet (offsets and starts are
\* the offsets of the two passes of assemble at each instruction)
AsmIdle ==
    asm = [instructions |-> <<>>,
           assembler |-> [code |-> <<>>, labels |-> <<>>, fixups |-> <<>>,
                          external_symbols |-> {}, offsets |-> <<>>, starts |-> <<>>,
                          raised |-> ""],
           ran |-> FALSE]

\* PEGenerator.__init__; imports is a dict in insertion order
NewPEGenerator == [sections |-> <<>>, imports |-> <<>>, entry_point |-> 0]

\* WindowsBackend.__init__: string_literals is a dict, here its keys
NewWindowsBackend == [string_literals |-> {}]

\* no call of generate or compile made yet
NoCall == [op |-> "", st |-> "", ret |-> FALSE, pe_gen |-> NewPEGenerator, before |-> FALSE]

\* a PEGenerator, a WindowsBackend, the program given to compile, the file
\* at the output path and what the system does, before any call
PeIdleState ==
    [gen |-> NewPEGenerator, backend |-> NewWindowsBackend,
     ir |-> [init |-> <<>>, functions |-> <<>>, strings |-> <<>>],
     fs |-> [exists |-> FALSE, content |-> <<>>],
     env |-> [platform |-> "posix", mkdir_fails |-> FALSE, open_fails |-> FALSE,
              write_fails |-> FALSE, unlink_fails |-> FALSE],
     added |-> 0, last |-> NoCall]

PeIdle == pe = PeIdleState

BackIdle == IrIdle /\ OptIdle /\ AllocIdle /\ AsmIdle /\ PeIdle

\* what an action of the IR generator leaves alone, one of the optimizer,
\* one of the register allocator
besideIr == <<midVars, opt, alloc, asm, pe>>

besideOpt == <<midVars, irVars, alloc, asm, pe>>

besideAlloc == <<midVars, irVars, opt, asm, pe>>

besideAsm == <<midVars, irVars, opt, alloc, pe>>

besidePe == <<midVars, irVars, opt, alloc, asm>>


\* the front end, the scopes, the analyzer and the pipeline before any call
MidIdle == FrontIdle /\ ScopeIdle /\ AnalyzerIdle /\ PipelineIdle

\* the other objects before any call
BesideIrIdle == MidIdle /\ OptIdle /\ AllocIdle /\ AsmIdle /\ PeIdle

BesideOptIdle == MidIdle /\ IrIdle /\ AllocIdle /\ AsmIdle /\ PeIdle

BesideAllocIdle == MidIdle /\ IrIdle /\ OptIdle /\ AsmIdle /\ PeIdle

BesideAsmIdle == MidIdle /\ IrIdle /\ OptIdle /\ AllocIdle /\ PeIdle

BesidePeIdle == MidIdle /\ IrIdle /\ OptIdle /\ AllocIdle /\ AsmIdle

\* the sequences over S of length at most n
SeqsUpTo(S, n) == UNION { [1..k -> S] : k \in 0..n }

\* ------------------------------------------------------------------------
\* The front end: MetaForgeLexer(source).tokenize(), MetaForgeParser(tokens).parse()
\* ------------------------------------------------------------------------
MaxPieces == 4

\* the characters the source texts of the lexer are drawn from
Alphabet == {"a", "0", "1", ".", "+", " ", "\n", "\"", "\\", "/", "*"}

LexSources == SeqsUpTo(Alphabet, MaxSrcLen)

\* the pieces the source texts of the parser are put together from
Pieces ==
    << <<"f","n"," ","f","(",")">>,
       <<"{">>,
       <<"}">>,
       <<"i","m","p","o","r","t"," ","a",";">>,
       <<"/","*","c","*","/">>,
       <<"r","e","t",";">> >>

RECURSIVE Concat(_)
Concat(ss) == IF ss = <<>> THEN <<>> ELSE Head(ss) \o Concat(Tail(ss))

ParseSources ==
    { Concat([i \in DOMAIN ps |-> Pieces[ps[i]]]) : ps \in SeqsUpTo(DOMAIN Pieces, MaxPieces) }

\* the token list without its COMMENT tokens
WithoutComments(t) == SelectSeq(t, LAMBDA tok : tok.type # "COMMENT")

\* source texts that are a single identifier-shaped lexeme: keywords and
\* type names in lower and mixed case, and plain names
IdentSources ==
    { <<"i","8">>, <<"i","1","6">>, <<"i","3","2">>, <<"i","6","4">>,
      <<"u","8">>, <<"u","1","6">>, <<"u","3","2">>, <<"u","6","4">>,
      <<"f","3","2">>, <<"f","6","4">>, <<"b","o","o","l">>,
      <<"s","t","r","i","n","g">>, <<"v","o","i","d">>, <<"I","3","2">>,
      <<"f","n">>, <<"F","n">>, <<"r","e","t">>, <<"l","e","t">>,
      <<"x">>, <<"_","x">>, <<"f","n","x">>, <<"i","3">> }

FrontInit ==
    /\ source \in LexSources \cup ParseSources \cup IdentSources
    /\ lexed = NotRun /\ parsed = NotRun /\ parsedPlain = NotRun
    /\ ScopeIdle /\ AnalyzerIdle /\ PipelineIdle /\ BackIdle

\* lexer = MetaForgeLexer(source); tokens = lexer.tokenize()
TokenizeStep ==
    /\ lexed = NotRun
    /\ lexed' = Tokenize(source)
    /\ UNCHANGED <<source, parsed, parsedPlain, scopeVars, analyzerVars, pipelineVars, backVars>>

\* MetaForgeParser(tokens).parse() on the tokens of the lexer
ParseStep ==
    /\ lexed.st = "ok" /\ parsed = NotRun
    /\ parsed' = Parse(lexed.tokens)
    /\ UNCHANGED <<source, lexed, parsedPlain, scopeVars, analyzerVars, pipelineVars, backVars>>

\* MetaForgeParser(tokens).parse() on the same tokens, the comments left out
ParsePlainStep ==
    /\ lexed.st = "ok" /\ parsedPlain = NotRun
    /\ parsedPlain' = Parse(WithoutComments(lexed.tokens))
    /\ UNCHANGED <<source, lexed, parsed, scopeVars, analyzerVars, pipelineVars, backVars>>

FrontNext == TokenizeStep \/ ParseStep \/ ParsePlainStep

SpecFrontEnd == FrontInit /\ [][FrontNext]_vars

\* ------------------------------------------------------------------------
\* Scope objects: Scope(name, parent), add_child, add_symbol, lookup
\* ------------------------------------------------------------------------
MaxScopes == 3

\* the names of the symbols declared
Names == {"x", "y"}

ScopeInit == ScopeIdle /\ FrontIdle /\ AnalyzerIdle /\ PipelineIdle /\ BackIdle

\* child = Scope(name, parent); parent.add_child(child)
NewChildScope(parent) ==
    /\ Len(scopes) < MaxScopes
    /\ scopes' = AddChildScope(scopes, parent, "scope" \o Join(IntStr(Len(scopes) + 1)))
    /\ found' = [called |-> FALSE]
    /\ UNCHANGED <<frontVars, analyzerVars, pipelineVars, backVars>>

\* scope.add_symbol(Symbol(name, VARIABLE, 'i32', scope.name, ...))
DeclareSymbol(sid, name) ==
    /\ scopes' = [scopes EXCEPT ![sid] =
                    AddSymbol(@, Symbol(name, "VARIABLE", "i32", @.name, <<0, 0>>, FALSE)).scope]
    /\ found' = [called |-> FALSE]
    /\ UNCHANGED <<frontVars, analyzerVars, pipelineVars, backVars>>

\* scope.lookup(name)
LookupStep(sid, name) ==
    /\ found' = [called |-> TRUE, sid |-> sid, name |-> name, ret |-> Lookup(scopes, sid, name)]
    /\ UNCHANGED <<scopes, frontVars, analyzerVars, pipelineVars, backVars>>

ScopeNext ==
    \/ \E parent \in DOMAIN scopes : NewChildScope(parent)
    \/ \E sid \in DOMAIN scopes, name \in Names : DeclareSymbol(sid, name)
    \/ \E sid \in DOMAIN scopes, name \in Names : LookupStep(sid, name)

SpecScope == ScopeInit /\ [][ScopeNext]_vars

\* ------------------------------------------------------------------------
\* SemanticAnalyzer().analyze(ast) on the trees the analyzer reads
\* ------------------------------------------------------------------------
MaxDecls == 2

MaxAnalyzeCalls == 2

\* a node of type 'Function' with the keys the analyzer requires
FunctionNode(name, return_type) ==
    [type |-> "Function", name |-> name, return_type |-> return_type]

BlockNode(statements) == [type |-> "Block", statements |-> statements]

ProgramNode(declarations) == [type |-> "Program", declarations |-> declarations]

ReturnNode(value_type) == [type |-> "Return", value |-> [type |-> value_type, value |-> 0]]

\* the declarations the programs given to analyze are made of
Decls ==
    { FunctionNode("f", "i32"), FunctionNode("g", "i32"), FunctionNode("f", "f64"),
      [exported |-> TRUE] @@ FunctionNode("f", "i32"),
      [body |-> BlockNode(<<>>)] @@ FunctionNode("f", "i32"),
      [body |-> BlockNode(<<FunctionNode("g", "i32"), FunctionNode("g", "f64")>>)]
          @@ FunctionNode("f", "i32"),
      [body |-> FunctionNode("f", "i32")] @@ FunctionNode("g", "i32"),
      [body |-> ReturnNode("NumberLiteral")] @@ FunctionNode("g", "i32"),
      BlockNode(<<FunctionNode("f", "i32")>>),
      [type |-> "Import", module |-> "a"],
      [type |-> "FunctionCall", name |-> "f"],
      ReturnNode("Identifier") }

Programs == { ProgramNode(ds) : ds \in SeqsUpTo(Decls, MaxDecls) }

AnalyzerInit ==
    /\ program \in Programs
    /\ analyzer = NewAnalyzer
    /\ analysis = [called |-> FALSE, calls |-> 0]
    /\ FrontIdle /\ ScopeIdle /\ PipelineIdle /\ BackIdle

\* analyzer.analyze(program); the analyzer is not rebuilt between two calls
AnalyzeStep ==
    /\ analysis.calls < MaxAnalyzeCalls
    /\ \E a \in {Analyze(analyzer, program)} :
          /\ analyzer' = a.analyzer
          /\ analysis' = [called |-> TRUE, calls |-> analysis.calls + 1,
                          before |-> analyzer, ret |-> a.ret]
    /\ UNCHANGED <<program, frontVars, scopeVars, pipelineVars, backVars>>

AnalyzerNext == AnalyzeStep

SpecAnalyzer == AnalyzerInit /\ [][AnalyzerNext]_vars

\* ------------------------------------------------------------------------
\* Properties of the scopes
\* ------------------------------------------------------------------------
\* the scope sid followed by its enclosing scopes, innermost first
RECURSIVE ScopeChain(_, _)
ScopeChain(scs, sid) ==
    IF scs[sid].parent = 0 THEN <<sid>> ELSE <<sid>> \o ScopeChain(scs, scs[sid].parent)

\* the symbol of the first scope of the chain that binds the name, None if
\* no scope of the chain binds it
NearestBinding(scs, sid, name) ==
    LET chain == ScopeChain(scs, sid)
        hits  == { i \in DOMAIN chain : Binds(scs[chain[i]], name) }
    IN  IF hits = {} THEN NoneNode
        ELSE SymbolOf(scs[chain[CHOOSE i \in hits : \A j \in hits : i <= j]], name)

\* C9: lookup(name) returns the symbol bound in the nearest scope, starting
\* with the scope it is called on and going up the parents, and None when no
\* scope up to the root binds the name
C9_LookupNearest ==
    found.called => found.ret = NearestBinding(scopes, found.sid, found.name)

\* a lookup answered by the inner of two scopes that both bind the name
C9_Witness ==
    /\ found.called
    /\ scopes[found.sid].parent # 0
    /\ Binds(scopes[found.sid], found.name)
    /\ Binds(scopes[scopes[found.sid].parent], found.name)
    /\ SymbolOf(scopes[found.sid], found.name)
         # SymbolOf(scopes[scopes[found.sid].parent], found.name)
    /\ found.ret = SymbolOf(scopes[found.sid], found.name)

\* ------------------------------------------------------------------------
\* Properties of symbol collection
\* ------------------------------------------------------------------------
\* what collecting the nodes into one scope that binds the names of bound
\* must do: scopes is the number of scopes it creates, rejected the number
\* of function declarations it refuses
RECURSIVE Declared(_, _)
Declared(nodes, bound) ==
    IF nodes = <<>> THEN [scopes |-> 0, rejected |-> 0]
    ELSE LET node == Head(nodes)
             inner == IF node.type = "Function"
                      THEN Declared(Get(node, "params", <<>>)
                                    \o (IF "body" \in DOMAIN node THEN <<node.body>> ELSE <<>>), {})
                      ELSE Declared(Get(node, "statements", <<>>), {})
             rest == Declared(Tail(nodes),
                              IF node.type = "Function" THEN bound \cup {node.name} ELSE bound)
         IN  CASE node.type = "Function" /\ node.name \in bound ->
                    [scopes |-> rest.scopes, rejected |-> rest.rejected + 1]
               [] node.type \in {"Function", "Block"} /\ ~(node.type = "Function" /\ node.name \in bound) ->
                    [scopes |-> 1 + inner.scopes + rest.scopes,
                     rejected |-> inner.rejected + rest.rejected]
               [] OTHER -> rest

\* the names the scope binds
BoundNames(sc) == { sc.symbols[i].name : i \in DOMAIN sc.symbols }

\* the top-level function declarations of the program whose name the global
\* scope already binds when they are reached
RejectedAtTop(decls, bound) ==
    { i \in DOMAIN decls :
        /\ decls[i].type = "Function"
        /\ \/ decls[i].name \in bound
           \/ \E j \in 1..(i - 1) : decls[j].type = "Function" /\ decls[j].name = decls[i].name }

AlreadyDefined(name) == "Symbol " \o name \o " already defined in scope global"

\* C10: a declaration whose name the current scope already binds is
\* rejected: add_symbol returns False and leaves the scope as it is, the
\* error 'Symbol <name> already defined in scope <scope>' is recorded once
\* per rejected declaration, the name still maps to the first declaration, no
\* scope is created for the rejected declaration, and analyze returns False
C10_DuplicateRejected ==
    analysis.called =>
      LET pre   == analysis.before
          decls == program.declarations
          bound == BoundNames(pre.scopes[1])
          want  == Declared(decls, bound)
          top   == RejectedAtTop(decls, bound)
      IN  /\ Len(analyzer.scopes) = Len(pre.scopes) + want.scopes
          /\ want.rejected > 0 =>
               /\ analysis.ret = FALSE
               /\ Len(analyzer.errors) >= Len(pre.errors) + want.rejected
          /\ \A i \in top :
               LET name  == decls[i].name
                   first == CHOOSE j \in DOMAIN decls :
                               /\ decls[j].type = "Function" /\ decls[j].name = name
                               /\ \A m \in 1..(j - 1) :
                                     ~(decls[m].type = "Function" /\ decls[m].name = name)
                   again == AddSymbol(analyzer.scopes[1],
                                      Symbol(name, "FUNCTION", decls[i].return_type,
                                             "global", <<0, 0>>, Get(decls[i], "exported", FALSE)))
               IN  /\ again.ret = FALSE /\ again.scope = analyzer.scopes[1]
                   /\ CountOf(AlreadyDefined(name), analyzer.errors)
                        = CountOf(AlreadyDefined(name), pre.errors)
                          + Cardinality({ j \in top : decls[j].name = name })
                   /\ SymbolOf(analyzer.scopes[1], name)
                        = IF name \in bound THEN SymbolOf(pre.scopes[1], name)
                          ELSE Symbol(name, "FUNCTION", decls[first].return_type, "global",
                                      <<0, 0>>, Get(decls[first], "exported", FALSE))

\* a first analysis of a program that declares f twice with different return
\* types: the second declaration was rejected
C10_Witness ==
    /\ analysis.called /\ analysis.calls = 1 /\ analysis.ret = FALSE
    /\ Len(program.declarations) = 2
    /\ \A i \in 1..2 : program.declarations[i].type = "Function"
                       /\ program.declarations[i].name = "f"
    /\ program.declarations[1].return_type # program.declarations[2].return_type
    /\ AlreadyDefined("f") \in Range(analyzer.errors)
    /\ SymbolOf(analyzer.scopes[1], "f").data_type = program.declarations[1].return_type

\* ------------------------------------------------------------------------
\* A pipeline given source files, its analyzer given trees, and runs of main
\* ------------------------------------------------------------------------
MaxCalls == 2

\* fn main() -> i32 { return 0; }
SrcMain ==
    <<"f", "n", " ", "m", "a", "i", "n", "(", ")", " ", "-", ">", " ", "i", "3", "2",
      " ", "{", " ", "r", "e", "t", "u", "r", "n", " ", "0", ";", " ", "}">>

\* fn f() {}
SrcEmptyFn ==
    <<"f", "n", " ", "f", "(", ")", " ", "{", "}">>

\* 1..
SrcBadNumber == <<"1", ".", ".">>

\* {
SrcBadSyntax == <<"{">>

\* the source files given to compile and to main; the last one does not exist
Files ==
    <<[exists |-> TRUE, text |-> SrcMain], [exists |-> TRUE, text |-> SrcEmptyFn],
      [exists |-> TRUE, text |-> <<>>], [exists |-> TRUE, text |-> SrcBadNumber],
      [exists |-> TRUE, text |-> SrcBadSyntax], [exists |-> FALSE, text |-> <<>>]>>

\* the trees a client gives to pipeline.semantic_analyzer.analyze
ClientAsts ==
    { ProgramNode(<<FunctionNode("f", "f64"), FunctionNode("f", "f64")>>),
      ProgramNode(<<FunctionNode("f", "i32")>>) }

PipelineInit == PipelineIdle /\ FrontIdle /\ ScopeIdle /\ AnalyzerIdle /\ BackIdle

\* pipeline.compile(CompilationContext(file, ...)); the entry of the log
\* keeps the pipeline before and after the call and the diagnostics the call
\* added to the sink
CompileStep(input) ==
    /\ Len(log) < MaxCalls
    /\ \E c \in {Compile(pipeline, diagnostics, Files[input])} :
          /\ pipeline' = c.pipeline
          /\ diagnostics' = c.diagnostics
          /\ log' = Append(log, [op |-> "compile", input |-> input, ret |-> c.ret,
                                 stages |-> c.stages, analyzed |-> c.analyzed,
                                 generated |-> c.generated, ir |-> c.ir,
                                 emitted |-> SubSeq(c.diagnostics, Len(diagnostics) + 1,
                                                    Len(c.diagnostics)),
                                 before |-> pipeline, after |-> c.pipeline])
    /\ UNCHANGED <<exit, frontVars, scopeVars, analyzerVars, backVars>>

\* pipeline.semantic_analyzer.analyze(ast), the analyzer being a public
\* attribute of the pipeline and SemanticAnalyzer a class the package exports
AnalyzeDirect(ast) ==
    /\ Len(log) < MaxCalls
    /\ \E a \in {Analyze(pipeline.semantic_analyzer, ast)} :
          /\ pipeline' = [pipeline EXCEPT !.semantic_analyzer = a.analyzer]
          /\ log' = Append(log, [op |-> "analyze", ret |-> a.ret])
    /\ UNCHANGED <<diagnostics, exit, frontVars, scopeVars, analyzerVars, backVars>>

\* sys.exit(main()) on the input file, for a platform supported or not
MainStep(input, supported) ==
    /\ exit' = [ran |-> TRUE, input |-> input, supported |-> supported,
                outcome |-> Main(Files[input], supported)]
    /\ UNCHANGED <<pipeline, diagnostics, log, frontVars, scopeVars, analyzerVars, backVars>>

PipelineNext ==
    \/ \E input \in DOMAIN Files : CompileStep(input)
    \/ \E ast \in ClientAsts : AnalyzeDirect(ast)
    \/ \E input \in DOMAIN Files, supported \in BOOLEAN : MainStep(input, supported)

SpecPipeline == PipelineInit /\ [][PipelineNext]_vars

\* ------------------------------------------------------------------------
\* Properties of the pipeline
\* ------------------------------------------------------------------------
\* the entries of the log that are compile calls
Compiles == { i \in DOMAIN log : log[i].op = "compile" }

\* the analyzer of the entry reported errors: analyze was called and
\* self.errors is not empty after it
AnalyzerReported(e) == e.analyzed /\ e.after.semantic_analyzer.errors # <<>>

\* C1: whenever the semantic analyzer reports at least one error during a
\* compile call, the call emits one error diagnostic per analyzer error, in
\* order, and returns False, and the stage IR_GEN is not entered: generate
\* is not called and the IR generator is left as it was (optimization and
\* the backend come after IR generation)
C1_AnalyzerErrorsAbort ==
    \A i \in Compiles :
      AnalyzerReported(log[i]) =>
        LET errors == log[i].after.semantic_analyzer.errors
        IN  /\ log[i].ret = FALSE
            /\ log[i].emitted = [n \in 1..Len(errors) |->
                                   [level |-> "error", code |-> "TYPE_ERROR",
                                    message |-> errors[n], line |-> 1, column |-> 1]]
            /\ ~log[i].generated
            /\ "IR_GEN" \notin Range(log[i].stages)
            /\ log[i].after.ir_generator = log[i].before.ir_generator

\* a compile call made after the analyzer of the pipeline was given a tree
\* that declares f twice: three analyzer errors, three diagnostics
C1_Witness ==
    \E i \in Compiles :
      /\ AnalyzerReported(log[i])
      /\ Len(log[i].after.semantic_analyzer.errors) = 3
      /\ Len(log[i].emitted) = 3
      /\ log[i].stages = <<"LEXICAL", "PARSING", "SEMANTIC">>

HasError(ds) == \E n \in DOMAIN ds : ds[n].level = "error"

MainInput == CHOOSE n \in DOMAIN Files : Files[n].exists /\ Files[n].text = SrcMain

\* C3: compiling fn main() -> i32 { return 0; } goes through the stages
\* LEXICAL, PARSING, SEMANTIC, IR_GEN, OPTIMIZATION and NATIVE in that order
\* and returns True without an error diagnostic
C3_MainCompiles ==
    \A i \in Compiles :
      log[i].input = MainInput =>
        /\ log[i].stages = <<"LEXICAL", "PARSING", "SEMANTIC", "IR_GEN",
                             "OPTIMIZATION", "NATIVE">>
        /\ log[i].ret = TRUE
        /\ ~HasError(log[i].emitted)

\* what a pipeline holds of the calls made on it
Carried(P) ==
    [symbols |-> [n \in DOMAIN P.semantic_analyzer.scopes |->
                     P.semantic_analyzer.scopes[n].symbols],
     errors |-> P.semantic_analyzer.errors,
     instructions |-> P.ir_generator.instructions]

\* C4: compiling the same input twice in a row on one pipeline gives the
\* same result, the same diagnostics and the same IR, and the second call
\* starts with no symbol, error or IR instruction that the first call added
C4_NoCarryOver ==
    \A i \in Compiles :
      (i + 1 \in Compiles /\ log[i + 1].input = log[i].input) =>
        /\ log[i + 1].ret = log[i].ret
        /\ log[i + 1].emitted = log[i].emitted
        /\ log[i + 1].ir = log[i].ir
        /\ Carried(log[i + 1].before) = Carried(log[i].before)

\* ------------------------------------------------------------------------
\* Properties of the front end
\* ------------------------------------------------------------------------
\* C5: for every source, tokenize returns without raising, and the list it
\* returns holds exactly one EOF token, which is the last one
C5_TokenizeTotal ==
    lexed # NotRun =>
      /\ lexed.st = "ok"
      /\ lexed.tokens # <<>>
      /\ lexed.tokens[Len(lexed.tokens)].type = "EOF"
      /\ Cardinality({ n \in DOMAIN lexed.tokens : lexed.tokens[n].type = "EOF" }) = 1

\* C6: every character of the source that is not whitespace lies in the
\* text of a token, and the lexeme of every token but the comments is the
\* source text it was scanned from
C6_LexemesReproduceSource ==
    lexed.st = "ok" =>
      /\ \A p \in 0..(Len(source) - 1) :
           ~IsSpace(At(source, p)) =>
              \E n \in DOMAIN lexed.tokens :
                 lexed.tokens[n].start <= p /\ p < lexed.tokens[n].end
      /\ \A n \in DOMAIN lexed.tokens :
           lexed.tokens[n].type \notin {"COMMENT", "EOF"} =>
              Lexeme(lexed.tokens[n])
                = Slice(source, lexed.tokens[n].start, lexed.tokens[n].end)

\* C7: parse() does not abort at a mismatched token: whatever tokens it is
\* given, it returns a Program tree with the declarations that parsed
C7_ParseRecovers ==
    parsed # NotRun =>
      /\ parsed.st = "ok"
      /\ parsed.node.type = "Program"
      /\ "declarations" \in DOMAIN parsed.node

\* C8: the tokens with their comments and the tokens without them parse to
\* the same tree, or fail in the same way
C8_CommentsTransparent ==
    (parsed # NotRun /\ parsedPlain # NotRun) => parsed = parsedPlain

\* ------------------------------------------------------------------------
\* IRGenerator().generate(ast) on the trees the generator reads
\* ------------------------------------------------------------------------
MaxIrDecls == 2

\* a node of type 'MethodDeclaration' with the keys the generator requires
MethodNode(name, parameters, body, returnType) ==
    [type |-> "MethodDeclaration", name |-> name, parameters |-> parameters,
     body |-> body, returnType |-> returnType]

FunctionDeclNode(name, parameters, body, returnType) ==
    [type |-> "FunctionDeclaration", name |-> name, parameters |-> parameters,
     body |-> body, returnType |-> returnType]

ClassNode(name, body) == [type |-> "ClassDeclaration", name |-> name, body |-> body]

ReturnStmt(value) == [type |-> "ReturnStatement", value |-> value]

NumberNode(value) == [type |-> "NumberLiteral", value |-> value]

\* the declarations the programs given to generate are made of; the last
\* one is the tree MetaForgeParser builds for fn f() {}
IrDecls ==
    { ClassNode("B", <<MethodNode("m", <<[name |-> "x"]>>, <<>>, "void"),
                       MethodNode("n", <<>>, <<ReturnStmt(NumberNode(1))>>, "i32")>>),
      [extends |-> "B"] @@ ClassNode("D", <<MethodNode("n", <<>>, <<>>, "void"),
                                            MethodNode("p", <<>>, <<>>, "void")>>),
      [extends |-> "D"] @@ ClassNode("E", <<MethodNode("q", <<>>, <<>>, "void")>>),
      FunctionDeclNode("f", <<[name |-> "a"], [name |-> "b"]>>, <<>>, "void"),
      FunctionDeclNode("g", <<>>, <<ReturnStmt(NumberNode(0))>>, "i32"),
      FunctionDeclNode("h", <<[name |-> "a"]>>, <<ReturnStmt(NoneNode)>>, "void"),
      FunctionDeclNode("k", <<>>,
          <<[type |-> "VariableDeclaration", name |-> "v", initializer |-> NumberNode(2)]>>,
          "void"),
      Parse(Tokenize(SrcEmptyFn).tokens).node.declarations[1] }

IrPrograms == { ProgramNode(ds) : ds \in SeqsUpTo(IrDecls, MaxIrDecls) }

IrInit ==
    /\ tree \in IrPrograms
    /\ generator = NewIRGenerator
    /\ produced = NotRun
    /\ BesideIrIdle

\* generator.generate(tree)
GenerateStep ==
    /\ produced = NotRun
    /\ \E r \in {Generate(generator, tree)} :
          /\ generator' = r.generator
          /\ produced' = [st |-> "ok", ret |-> r.ret]
    /\ UNCHANGED <<tree, besideIr>>

IrNext == GenerateStep

SpecIrGenerator == IrInit /\ [][IrNext]_vars

\* ------------------------------------------------------------------------
\* Properties of the IR generator
\* ------------------------------------------------------------------------
\* C11: for every class D that extends a class B, every method of B's
\* vtable has the same slot index in D's vtable, whatever the order in which
\* the program declares B and D
C11_SlotsStable ==
    produced # NotRun =>
      \A i \in DOMAIN tree.declarations :
        LET d == tree.declarations[i]
        IN  (d.type = "ClassDeclaration" /\ "extends" \in DOMAIN d) =>
              LET vb == VtableOf(generator, d.extends)
                  vd == VtableOf(generator, d.name)
              IN  \A n \in DOMAIN vb : n <= Len(vd) /\ vd[n].name = vb[n].name

\* the number of instructions the statement gives, for the statements of IrDecls
StatementSize(stmt) ==
    CASE stmt.type = "ReturnStatement" -> IF stmt.value = NoneNode THEN 1 ELSE 2
      [] stmt.type = "VariableDeclaration" -> 2

RECURSIVE StatementsSize(_)
StatementsSize(stmts) ==
    IF stmts = <<>> THEN 0 ELSE StatementSize(Head(stmts)) + StatementsSize(Tail(stmts))

\* the instructions from position p on are those of the function d: label,
\* enter n, the store_param of the n parameters in order, the statements, a
\* return_void when d is void and its body does not end with a return, leave
FunctionShape(instrs, p, d) ==
    LET params == d.parameters
        n      == Len(params)
        body   == d.body
        void   == d.returnType \in {"", "void"}
        falls  == body = <<>> \/ body[Len(body)].type # "ReturnStatement"
        last   == p + 1 + n + StatementsSize(body) + (IF void /\ falls THEN 1 ELSE 0) + 1
    IN  /\ "parameters" \in DOMAIN d /\ "returnType" \in DOMAIN d
        /\ last <= Len(instrs)
        /\ instrs[p] = IRInstruction("label", <<d.name>>, "None")
        /\ instrs[p + 1] = IRInstruction("enter", <<Join(IntStr(n))>>, "None")
        /\ \A m \in 1..n :
              instrs[p + 1 + m]
                = IRInstruction("store_param", <<Join(IntStr(m - 1))>>, params[m].name)
        /\ (void /\ falls) => instrs[last - 1] = IRInstruction("return_void", <<>>, "None")
        /\ instrs[last] = IRInstruction("leave", <<>>, "None")
        /\ \A m \in (p + 1)..(last - 1) : instrs[m].op # "leave"

\* C20: for every function of the program the generator emits label, enter
\* n, one store_param per parameter in order, the statements, a return_void
\* only when the function is void and control reaches the end of its body,
\* and leave as the last instruction of the function
C20_FunctionLayout ==
    produced # NotRun =>
      \A i \in DOMAIN tree.declarations :
        tree.declarations[i].type = "FunctionDeclaration" =>
          \E p \in DOMAIN generator.instructions :
             FunctionShape(generator.instructions, p, tree.declarations[i])

\* ------------------------------------------------------------------------
\* Identifier-shaped lexemes (lexer.py 259-272 with KEYWORDS, 116-155)
\* ------------------------------------------------------------------------
\* the type names the language reserves
ReservedTypeNames ==
    {"i8", "i16", "i32", "i64", "u8", "u16", "u32", "u64",
     "f32", "f64", "bool", "string", "void"}

\* the words of KEYWORDS that name a keyword of their own
KeywordNames == { w \in DOMAIN KEYWORDS : KEYWORDS[w] # "TYPE" }

\* the tokens scanned by the identifier branch: they start at a letter or
\* an underscore
IdentifierShaped(t) ==
    t.type # "EOF" /\ (IsAlpha(At(source, t.start)) \/ At(source, t.start) = "_")

\* C19: a lexeme of letters, digits and underscores is tagged with its
\* keyword when its lower-case form is a keyword, else TYPE when it is one
\* of the reserved type names (in any case), else IDENTIFIER
C19_IdentifierTag ==
    lexed.st = "ok" =>
      \A n \in DOMAIN lexed.tokens :
         IdentifierShaped(lexed.tokens[n]) =>
            LET low == LowerStr(Slice(source, lexed.tokens[n].start, lexed.tokens[n].end))
            IN lexed.tokens[n].type =
                 IF low \in KeywordNames THEN KEYWORDS[low]
                 ELSE IF low \in ReservedTypeNames THEN "TYPE"
                 ELSE "IDENTIFIER"

\* ------------------------------------------------------------------------
\* optimization.py: IROptimizer
\* ------------------------------------------------------------------------
MaxIrLen == 5

\* the floats of the optimizer are kept as num/den in lowest terms; the
\* lists given to it keep every quotient exact in binary (den 1, 2, 4 or 8)
RECURSIVE Gcd(_, _)
Gcd(a, b) == IF b = 0 THEN a ELSE Gcd(b, a % b)

Abs(n) == IF n < 0 THEN 0 - n ELSE n

Float(num, den) ==
    With([c \in {Gcd(Abs(num), den)} |-> [num |-> num \div c, den |-> den \div c]])

\* left + right, left - right, left * right, left / right (right is not 0)
FloatOp(op, left, right) ==
    CASE op = "add" -> Float(left.num * right.den + right.num * left.den, left.den * right.den)
      [] op = "sub" -> Float(left.num * right.den - right.num * left.den, left.den * right.den)
      [] op = "mul" -> Float(left.num * right.num, left.den * right.den)
      [] op = "div" -> IF right.num > 0
                       THEN Float(left.num * right.den, left.den * right.num)
                       ELSE Float((0 - left.num) * right.den, left.den * (0 - right.num))

\* str(result) of a float: the whole part, a point, the decimals
FloatText(x) ==
    With([th \in {((Abs(x.num) % x.den) * 1000) \div x.den} |->
        (IF x.num < 0 THEN "-" ELSE "")
        \o Join(IntStr(Abs(x.num) \div x.den)) \o "."
        \o With([frac \in {StripZeros(<<DigitSeq[(th \div 100) + 1],
                                        DigitSeq[((th \div 10) % 10) + 1],
                                        DigitSeq[(th % 10) + 1]>>)} |->
              IF frac = <<>> THEN "0" ELSE Join(frac)])])

\* the floats whose texts float() is given
FloatRange == { Float(n, d) : n \in 0..40, d \in {1, 2, 4, 8} }

FloatTexts == [x \in FloatRange |-> FloatText(x)]

\* float(text): the text of an integer or of a float reads back as its
\* value, any other text raises ValueError (ok is FALSE)
FloatOfText(text) ==
    IF \E n \in 0..9 : Join(IntStr(n)) = text
    THEN [ok |-> TRUE, val |-> Float(CHOOSE n \in 0..9 : Join(IntStr(n)) = text, 1)]
    ELSE IF \E x \in FloatRange : FloatTexts[x] = text
    THEN [ok |-> TRUE, val |-> CHOOSE x \in FloatRange : FloatTexts[x] = text]
    ELSE [ok |-> FALSE, val |-> Float(0, 1)]

\* bool(instr.result)
Truthy(result) == result # "None" /\ result # ""

\* arg.startswith('L'), over the names the lists are made of
StartsWithL(arg) == \E n \in 0..9 : arg = "L" \o Join(IntStr(n))

BasicBlock(instructions, predecessors, successors, id) ==
    [instructions |-> instructions, predecessors |-> predecessors,
     successors |-> successors, id |-> id]

\* _build_cfg, the first loop: the indices (from 0) that start a block
Leaders(instructions) ==
    {0} \cup { i \in 0..(Len(instructions) - 1) : instructions[i + 1].op = "label" }
        \cup { i + 1 : i \in { j \in 0..(Len(instructions) - 1) :
                 instructions[j + 1].op \in {"jump", "branch_false", "return", "return_void"} } }

\* _build_cfg, the second loop, from index i on
RECURSIVE SplitBlocks(_, _, _, _, _)
SplitBlocks(instructions, leaders, i, blocks, current_block) ==
    IF i = Len(instructions)
    THEN IF current_block # <<>>
         THEN Append(blocks, BasicBlock(current_block, {}, {}, Len(blocks)))
         ELSE blocks
    ELSE IF i \in leaders /\ current_block # <<>>
    THEN SplitBlocks(instructions, leaders, i + 1,
                     Append(blocks, BasicBlock(current_block, {}, {}, Len(blocks))),
                     <<instructions[i + 1]>>)
    ELSE SplitBlocks(instructions, leaders, i + 1, blocks,
                     Append(current_block, instructions[i + 1]))

\* _find_label_block: the index (from 0) of the first block that starts
\* with the label, -1 for None
FindLabelBlock(blocks, label) ==
    With([c \in {{ i \in 0..(Len(blocks) - 1) :
                     /\ blocks[i + 1].instructions[1].op = "label"
                     /\ blocks[i + 1].instructions[1].args[1] = label }} |->
        IF c = {} THEN -1 ELSE CHOOSE i \in c : \A j \in c : i <= j])

\* block.successors.add(to); blocks[to].predecessors.add(from)
AddEdge(blocks, from, to) ==
    [[blocks EXCEPT ![from + 1].successors = @ \cup {to}]
        EXCEPT ![to + 1].predecessors = @ \cup {from}]

AddFallThrough(blocks, i) ==
    IF i + 1 < Len(blocks) THEN AddEdge(blocks, i, i + 1) ELSE blocks

AddTarget(blocks, i, label) ==
    With([target \in {FindLabelBlock(blocks, label)} |->
        IF target # -1 THEN AddEdge(blocks, i, target) ELSE blocks])

\* _build_cfg, the third loop, from block i on
RECURSIVE AddEdges(_, _)
AddEdges(blocks, i) ==
    IF i = Len(blocks) THEN blocks
    ELSE With([last \in {blocks[i + 1].instructions[Len(blocks[i + 1].instructions)]} |->
            AddEdges(
                CASE last.op = "jump" -> AddTarget(blocks, i, last.args[1])
                  [] last.op = "branch_false" ->
                        AddTarget(AddFallThrough(blocks, i), i, last.args[2])
                  [] last.op \in {"return", "return_void"} -> blocks
                  [] OTHER -> AddFallThrough(blocks, i),
                i + 1)])

\* IROptimizer._build_cfg
BuildCfg(instructions) ==
    AddEdges(SplitBlocks(instructions, Leaders(instructions), 0, <<>>, <<>>), 0)

\* _constant_folding, the loop over one block from instruction i on;
\* raised is the exception float() raised
RECURSIVE FoldBlock(_, _, _, _)
FoldBlock(instructions, i, values, changed) ==
    IF i > Len(instructions)
    THEN [instructions |-> instructions, changed |-> changed, raised |-> ""]
    ELSE With([instr \in {instructions[i]} |->
        IF instr.op = "load_const" /\ Truthy(instr.result)
        THEN With([x \in {FloatOfText(instr.args[1])} |->
                IF ~x.ok
                THEN [instructions |-> instructions, changed |-> changed,
                      raised |-> "ValueError"]
                ELSE FoldBlock(instructions, i + 1,
                               (instr.result :> x.val) @@ values, changed)])
        ELSE IF /\ instr.op \in {"add", "sub", "mul", "div"} /\ Truthy(instr.result)
                /\ instr.args[1] \in DOMAIN values /\ instr.args[2] \in DOMAIN values
                /\ ~(instr.op = "div" /\ values[instr.args[2]].num = 0)
        THEN With([result \in {FloatOp(instr.op, values[instr.args[1]],
                                      values[instr.args[2]])} |->
                FoldBlock([instructions EXCEPT ![i] =
                              IRInstruction("load_const", <<FloatText(result)>>, instr.result)],
                          i + 1, (instr.result :> result) @@ values, TRUE)])
        ELSE FoldBlock(instructions, i + 1, values, changed)])

\* IROptimizer._constant_folding, from block b on
RECURSIVE ConstantFoldingFrom(_, _, _)
ConstantFoldingFrom(blocks, b, changed) ==
    IF b > Len(blocks) THEN [blocks |-> blocks, changed |-> changed, raised |-> ""]
    ELSE With([r \in {FoldBlock(blocks[b].instructions, 1, <<>>, FALSE)} |->
            IF r.raised # ""
            THEN [blocks |-> [blocks EXCEPT ![b].instructions = r.instructions],
                  changed |-> changed, raised |-> r.raised]
            ELSE ConstantFoldingFrom([blocks EXCEPT ![b].instructions = r.instructions],
                                     b + 1, changed \/ r.changed)])

ConstantFolding(blocks) == ConstantFoldingFrom(blocks, 1, FALSE)

\* _dead_code_elimination, the scan of one block backwards from instruction i
RECURSIVE LiveInstructions(_, _, _, _)
LiveInstructions(instructions, i, used_vars, live_instructions) ==
    IF i = 0 THEN live_instructions
    ELSE With([instr \in {instructions[i]} |->
        IF \/ instr.op \in {"store", "call", "return", "return_void", "branch_false", "jump"}
           \/ (Truthy(instr.result) /\ instr.result \in used_vars)
        THEN LiveInstructions(instructions, i - 1,
                 used_vars \cup { instr.args[n] : n \in { m \in DOMAIN instr.args :
                                                          ~StartsWithL(instr.args[m]) } },
                 <<instr>> \o live_instructions)
        ELSE LiveInstructions(instructions, i - 1, used_vars, live_instructions)])

\* IROptimizer._dead_code_elimination
DeadCodeElimination(blocks) ==
    With([live \in {[b \in DOMAIN blocks |->
                       [blocks[b] EXCEPT !.instructions =
                           LiveInstructions(@, Len(@), {}, <<>>)]]} |->
        [blocks |-> live,
         changed |-> \E b \in DOMAIN blocks :
                        Len(live[b].instructions) # Len(blocks[b].instructions)]])

\* _common_subexpression_elimination, the loop over one block
RECURSIVE CseBlock(_, _, _, _)
CseBlock(instructions, i, expressions, changed) ==
    IF i > Len(instructions) THEN [instructions |-> instructions, changed |-> changed]
    ELSE With([instr \in {instructions[i]} |->
        IF instr.op \in {"add", "sub", "mul", "div", "and", "or", "not", "neg"}
        THEN IF <<instr.op, instr.args>> \in DOMAIN expressions
             THEN CseBlock([instructions EXCEPT ![i] =
                              IRInstruction("load", <<expressions[<<instr.op, instr.args>>]>>,
                                            instr.result)],
                           i + 1, expressions, TRUE)
             ELSE CseBlock(instructions, i + 1,
                           (<<instr.op, instr.args>> :> instr.result) @@ expressions, changed)
        ELSE CseBlock(instructions, i + 1, expressions, changed)])

\* a plausible slip of the pass below: it reports a change whether or not it
\* replaced anything
AlwaysChanged(blocks) == [blocks |-> blocks, changed |-> TRUE]

\* IROptimizer._common_subexpression_elimination
CommonSubexpressionElimination(blocks) ==
    With([r \in {[b \in DOMAIN blocks |->
                    CseBlock(blocks[b].instructions, 1, <<>>, FALSE)]} |->
        [blocks |-> [b \in DOMAIN blocks |->
                        [blocks[b] EXCEPT !.instructions = r[b].instructions]],
         changed |-> \E b \in DOMAIN blocks : r[b].changed]])

\* IROptimizer._flatten_cfg
RECURSIVE FlattenCfg(_)
FlattenCfg(blocks) ==
    IF blocks = <<>> THEN <<>> ELSE Head(blocks).instructions \o FlattenCfg(Tail(blocks))

\* the loop while changed of optimize
RECURSIVE OptimizeLoop(_)
OptimizeLoop(blocks) ==
    With([cf \in {ConstantFolding(blocks)} |->
        IF cf.raised # "" THEN [blocks |-> cf.blocks, raised |-> cf.raised]
        ELSE With([dce \in {DeadCodeElimination(cf.blocks)} |->
             With([cse \in {CommonSubexpressionElimination(dce.blocks)} |->
                IF cf.changed \/ dce.changed \/ cse.changed
                THEN OptimizeLoop(cse.blocks)
                ELSE [blocks |-> cse.blocks, raised |-> ""]])])])

\* IROptimizer.optimize: self.blocks after the call and the list returned
\* (the list given when a pass raised)
Optimize(instructions) ==
    With([r \in {OptimizeLoop(BuildCfg(instructions))} |->
        [blocks |-> r.blocks,
         ret |-> IF r.raised # "" THEN instructions ELSE FlattenCfg(r.blocks)]])

\* the instructions the lists given to the optimizer are made of
OptPool ==
    { IRInstruction("load_const", <<"1">>, "t0"),
      IRInstruction("load_const", <<"2">>, "t1"),
      IRInstruction("load_const", <<"0">>, "t1"),
      IRInstruction("load_const", <<"s">>, "t1"),
      IRInstruction("add", <<"t0", "t1">>, "t2"),
      IRInstruction("div", <<"t2", "t1">>, "t3"),
      IRInstruction("store", <<"x", "t2">>, "None"),
      IRInstruction("store", <<"y", "t3">>, "None"),
      IRInstruction("label", <<"L0">>, "None"),
      IRInstruction("jump", <<"L0">>, "None") }

OptInputs == SeqsUpTo(OptPool, MaxIrLen)

OptInit ==
    /\ opt \in { [ir |-> i, blocks |-> <<>>, once |-> NotRun, twice |-> NotRun] :
                 i \in OptInputs }
    /\ BesideOptIdle

\* optimized = IROptimizer().optimize(ir)
OptimizeStep ==
    /\ opt.once = NotRun
    /\ \E r \in {Optimize(opt.ir)} :
          opt' = [opt EXCEPT !.blocks = r.blocks, !.once = [st |-> "ok", ret |-> r.ret]]
    /\ UNCHANGED besideOpt

\* optimizer.optimize(optimized)
OptimizeAgainStep ==
    /\ opt.once # NotRun /\ opt.twice = NotRun
    /\ \E r \in {Optimize(opt.once.ret)} :
          opt' = [opt EXCEPT !.blocks = r.blocks, !.twice = [st |-> "ok", ret |-> r.ret]]
    /\ UNCHANGED besideOpt

OptNext == OptimizeStep \/ OptimizeAgainStep

SpecOptimizer == OptInit /\ [][OptNext]_vars

\* C12: a second run of the optimizer on its own output changes nothing
C12_OptimizeIdempotent ==
    opt.twice # NotRun => opt.twice.ret = opt.once.ret

\* ------------------------------------------------------------------------
\* backend/register_allocator.py: RegisterAllocator
\* ------------------------------------------------------------------------
MaxBlockLen == 2

MaxAllocCalls == 2

Max(a, b) == IF a > b THEN a ELSE b

\* RegisterAllocator.available_regs, by the names of the members of Register
available_regs ==
    <<"RAX", "RCX", "RDX", "R8", "R9", "R10", "R11",
      "RBX", "RSI", "RDI", "R12", "R13", "R14", "R15">>

LiveRange(start, end, temp) ==
    [start |-> start, end |-> end, temp |-> temp, reg |-> "None", spill |-> FALSE]

\* the uses of _compute_live_ranges: the first range of the temporary is
\* stretched to the index, a new range is made when there is none
ExtendRange(ranges, temp, idx) ==
    IF \E n \in DOMAIN ranges : ranges[n].temp = temp
    THEN With([n \in {CHOOSE n \in DOMAIN ranges :
                        /\ ranges[n].temp = temp
                        /\ \A m \in 1..(n - 1) : ranges[m].temp # temp} |->
            [ranges EXCEPT ![n].start = Min(@, idx), ![n].end = Max(@, idx)]])
    ELSE Append(ranges, LiveRange(idx, idx, temp))

\* the body of the loop over the instructions of a block: a range for the
\* definition, then the uses src1 and src2 (an operand that is not a str
\* is passed over like a key that is absent)
RangesOfInstr(ranges, instr, idx) ==
    With([r1 \in {IF "dest" \in DOMAIN instr
                  THEN Append(ranges, LiveRange(idx, idx, instr.dest)) ELSE ranges} |->
    With([r2 \in {IF "src1" \in DOMAIN instr THEN ExtendRange(r1, instr.src1, idx) ELSE r1} |->
        IF "src2" \in DOMAIN instr THEN ExtendRange(r2, instr.src2, idx) ELSE r2])])

\* the instructions of a block in reverse order, from the one at index i - 1
RECURSIVE RangesOfBlock(_, _, _)
RangesOfBlock(ranges, instructions, i) ==
    IF i = 0 THEN ranges
    ELSE CHOOSE r \in { RangesOfBlock(x, instructions, i - 1) :
                          x \in {RangesOfInstr(ranges, instructions[i], i - 1)} } : TRUE

\* the blocks from block b on
RECURSIVE RangesOfBlocks(_, _, _)
RangesOfBlocks(ranges, blocks, b) ==
    IF b > Len(blocks) THEN ranges
    ELSE CHOOSE r \in { RangesOfBlocks(x, blocks, b + 1) :
                          x \in {RangesOfBlock(ranges, blocks[b].instructions,
                                                Len(blocks[b].instructions))} } : TRUE

\* RegisterAllocator._compute_live_ranges: self.live_ranges after it
ComputeLiveRanges(ir_function) == RangesOfBlocks(<<>>, ir_function.blocks, 1)

\* the nodes of a graph in the order they were added: the temporaries of
\* the ranges, each where it comes first
NodesOf(ranges) ==
    With([firsts \in {SelectSeq([i \in DOMAIN ranges |-> i],
                          LAMBDA i : \A j \in 1..(i - 1) :
                                        ranges[j].temp # ranges[i].temp)} |->
        [n \in DOMAIN firsts |-> ranges[firsts[n]].temp]])

\* RegisterAllocator._build_interference_graph: an nx.Graph as its nodes in
\* order and its edges, an edge the set of its one or two ends
BuildInterferenceGraph(live_ranges) ==
    [nodes |-> NodesOf(live_ranges),
     edges |-> { {live_ranges[i].temp, live_ranges[j].temp} :
                   <<i, j>> \in { p \in (DOMAIN live_ranges) \X (DOMAIN live_ranges) :
                       /\ p[1] < p[2]
                       /\ live_ranges[p[1]].start <= live_ranges[p[2]].end
                       /\ live_ranges[p[2]].start <= live_ranges[p[1]].end } }]

\* graph.degree(node): an edge from the node to itself counts twice
Degree(graph, node) ==
    Cardinality({ e \in graph.edges : node \in e })
    + (IF {node} \in graph.edges THEN 1 ELSE 0)

\* a plausible slip of the entry pushed on the stack: the neighbours are left out
NoNeighbors(graph, node) == {}

\* set(graph.neighbors(node))
Neighbors(graph, node) == { m \in Range(graph.nodes) : {node, m} \in graph.edges }

\* graph.remove_node(node)
RemoveNode(graph, node) ==
    [nodes |-> SelectSeq(graph.nodes, LAMBDA m : m # node),
     edges |-> { e \in graph.edges : node \notin e }]

\* the first node of the least degree
SpillCandidate(graph) ==
    graph.nodes[CHOOSE i \in DOMAIN graph.nodes :
        /\ \A j \in DOMAIN graph.nodes :
              Degree(graph, graph.nodes[i]) <= Degree(graph, graph.nodes[j])
        /\ \A j \in 1..(i - 1) :
              Degree(graph, graph.nodes[j]) > Degree(graph, graph.nodes[i])]

\* the nodes of degree below the number of registers, by their indices
LowDegree(graph) ==
    { i \in DOMAIN graph.nodes : Degree(graph, graph.nodes[i]) < Len(available_regs) }

\* _color_graph, the body of the loop while graph when node is taken: it is
\* pushed with its neighbours, or spilled, and leaves the graph
Simplified(s, node, pushed) ==
    [graph |-> RemoveNode(s.graph, node),
     stack |-> IF pushed
               THEN Append(s.stack, [node |-> node, neighbors |-> Neighbors(s.graph, node)])
               ELSE s.stack,
     spilled_vars |-> IF pushed THEN s.spilled_vars ELSE s.spilled_vars \cup {node}]

\* _color_graph, the body of the loop while graph: the first node of low
\* degree is taken, or the candidate for a spill when there is none
SimplifyBody(s) ==
    IF LowDegree(s.graph) # {}
    THEN Simplified(s, s.graph.nodes[CHOOSE i \in LowDegree(s.graph) :
                                        \A j \in LowDegree(s.graph) : i <= j], TRUE)
    ELSE Simplified(s, SpillCandidate(s.graph), FALSE)

\* n iterations of the loop while graph: the first half of them, then the
\* others from the state the first half left
RECURSIVE SimplifyTimes(_, _)
SimplifyTimes(s, n) ==
    IF n = 0 THEN s
    ELSE IF n = 1 THEN SimplifyBody(s)
    ELSE CHOOSE r \in { SimplifyTimes(x, n - n \div 2) :
                          x \in {SimplifyTimes(s, n \div 2)} } : TRUE

\* _color_graph, the loop while graph: every iteration takes one node out,
\* so the loop runs once for each node; the stack and the spilled nodes
Simplify(graph, stack, spilled_vars) ==
    SimplifyTimes([graph |-> graph, stack |-> stack, spilled_vars |-> spilled_vars],
                  Len(graph.nodes))

\* the registers of the neighbours of the entry that are coloured
UsedColors(top, coloring) == { coloring[n] : n \in top.neighbors \cap DOMAIN coloring }

\* the registers no neighbour holds, by their indices in available_regs
FreeRegs(top, coloring) ==
    { i \in DOMAIN available_regs : available_regs[i] \notin UsedColors(top, coloring) }

\* _color_graph, the body of the loop while stack: the entry popped gets
\* the first register no neighbour holds, or is spilled when there is none
ColorBody(s) ==
    [stack |-> SubSeq(s.stack, 1, Len(s.stack) - 1),
     coloring |->
        IF FreeRegs(s.stack[Len(s.stack)], s.coloring) # {}
        THEN (s.stack[Len(s.stack)].node :>
                 available_regs[CHOOSE i \in FreeRegs(s.stack[Len(s.stack)], s.coloring) :
                     \A j \in FreeRegs(s.stack[Len(s.stack)], s.coloring) : i <= j])
             @@ s.coloring
        ELSE s.coloring,
     spilled_vars |->
        IF FreeRegs(s.stack[Len(s.stack)], s.coloring) # {} THEN s.spilled_vars
        ELSE s.spilled_vars \cup {s.stack[Len(s.stack)].node}]

\* n iterations of the loop while stack: the first half of them, then the
\* others from the state the first half left
RECURSIVE ColorTimes(_, _)
ColorTimes(s, n) ==
    IF n = 0 THEN s
    ELSE IF n = 1 THEN ColorBody(s)
    ELSE CHOOSE r \in { ColorTimes(x, n - n \div 2) :
                          x \in {ColorTimes(s, n \div 2)} } : TRUE

\* _color_graph, the loop while stack: every iteration pops one entry
ColorNodes(stack, coloring, spilled_vars) ==
    ColorTimes([stack |-> stack, coloring |-> coloring, spilled_vars |-> spilled_vars],
               Len(stack))

\* RegisterAllocator._color_graph: self.coloring and self.spilled_vars after it
ColorGraph(interference_graph) ==
    CHOOSE r \in { [coloring |-> c.coloring, spilled_vars |-> c.spilled_vars] :
                     c \in { ColorNodes(s.stack, <<>>, s.spilled_vars) :
                                s \in {Simplify(interference_graph, <<>>, {})} } } : TRUE

\* f'[rbp-{spill_locations[var]}]', order the order the set spilled_vars was
\* iterated in
SpillSlot(order, var) ==
    "[rbp-" \o Join(IntStr(8 * (CHOOSE i \in DOMAIN order : order[i] = var))) \o "]"

\* _handle_spills, the instructions put in place of one instruction
SpillInstr(instr, spilled_vars, order) ==
    (IF "dest" \in DOMAIN instr /\ instr.dest \in spilled_vars
     THEN <<[opcode |-> "mov", dest |-> SpillSlot(order, instr.dest), src |-> "rax"]>>
     ELSE <<>>)
    \o (IF "src1" \in DOMAIN instr /\ instr.src1 \in spilled_vars
        THEN <<[opcode |-> "mov", dest |-> "r11", src |-> SpillSlot(order, instr.src1)]>>
        ELSE <<>>)
    \o (IF "src2" \in DOMAIN instr /\ instr.src2 \in spilled_vars
        THEN <<[opcode |-> "mov", dest |-> "r11", src |-> SpillSlot(order, instr.src2)]>>
        ELSE <<>>)
    \o <<[key \in DOMAIN instr |->
            IF key \in {"src1", "src2"} /\ instr[key] \in spilled_vars
            THEN "r11" ELSE instr[key]]>>

RECURSIVE SpillInstrs(_, _, _)
SpillInstrs(instructions, spilled_vars, order) ==
    IF instructions = <<>> THEN <<>>
    ELSE SpillInstr(Head(instructions), spilled_vars, order)
         \o SpillInstrs(Tail(instructions), spilled_vars, order)

\* RegisterAllocator._handle_spills: ir_function after it
HandleSpills(ir_function, spilled_vars, order) ==
    [blocks |-> [b \in DOMAIN ir_function.blocks |->
                    [instructions |->
                        SpillInstrs(ir_function.blocks[b].instructions, spilled_vars, order)]],
     stack_size |-> Max(ir_function.stack_size, 8 * Len(order))]

\* the orders a set can be iterated in
Orders(S) ==
    { o \in [1..Cardinality(S) -> S] : \A i, j \in DOMAIN o : o[i] = o[j] => i = j }

\* RegisterAllocator.allocate_registers: the allocator and the function
\* after the call, order the order spilled_vars is iterated in
AllocateRegisters(A, order) ==
    With([live_ranges \in {ComputeLiveRanges(A.fn)} |->
    With([graph \in {BuildInterferenceGraph(live_ranges)} |->
    With([c \in {ColorGraph(graph)} |->
        [fn |-> IF c.spilled_vars # {} THEN HandleSpills(A.fn, c.spilled_vars, order)
                ELSE A.fn,
         live_ranges |-> live_ranges, interference_graph |-> graph,
         coloring |-> c.coloring, spilled_vars |-> c.spilled_vars,
         calls |-> A.calls + 1]])])])

\* the spilled variables of the call to come
SpilledNext(A) == ColorGraph(BuildInterferenceGraph(ComputeLiveRanges(A.fn))).spilled_vars

\* the instructions the blocks given to the allocator are made of
AllocPool ==
    { [dest |-> "t0"],
      [dest |-> "t1", src1 |-> "t0"],
      [dest |-> "t2", src1 |-> "t0", src2 |-> "t1"],
      [dest |-> "t0", src1 |-> "t2", src2 |-> "t2"],
      [src1 |-> "t1"] }

\* blocks of one instruction each, where n temporaries are live together:
\* block b defines or uses t(3b-3), t(3b-2), t(3b-1), those below n
CrowdedBlocks(n) ==
    [b \in 1..((n + 2) \div 3) |->
        [instructions |->
            <<IF 3 * b - 1 < n
              THEN [dest |-> "t" \o Join(IntStr(3 * b - 3)),
                    src1 |-> "t" \o Join(IntStr(3 * b - 2)),
                    src2 |-> "t" \o Join(IntStr(3 * b - 1))]
              ELSE IF 3 * b - 2 < n
              THEN [dest |-> "t" \o Join(IntStr(3 * b - 3)),
                    src1 |-> "t" \o Join(IntStr(3 * b - 2))]
              ELSE [dest |-> "t" \o Join(IntStr(3 * b - 3))]>>]]

AllocBlocks == { [instructions |-> l] : l \in SeqsUpTo(AllocPool, MaxBlockLen) }

AllocFunctions ==
    { [blocks |-> bs, stack_size |-> 0] :
        bs \in { <<a>> : a \in AllocBlocks } \cup (AllocBlocks \X AllocBlocks) }
    \cup { [blocks |-> CrowdedBlocks(n), stack_size |-> s] :
             n \in {15, 16}, s \in {0, 16} }

AllocInit ==
    /\ alloc \in { [fn |-> fn, live_ranges |-> <<>>,
                    interference_graph |-> [nodes |-> <<>>, edges |-> {}],
                    coloring |-> <<>>, spilled_vars |-> {}, calls |-> 0] :
                   fn \in AllocFunctions }
    /\ BesideAllocIdle

\* allocator.allocate_registers(ir_function)
AllocateStep ==
    /\ alloc.calls < MaxAllocCalls
    /\ \E order \in Orders(SpilledNext(alloc)) :
          alloc' = AllocateRegisters(alloc, order)
    /\ UNCHANGED besideAlloc

AllocNext == AllocateStep

SpecAllocator == AllocInit /\ [][AllocNext]_vars

\* C13: after allocate_registers, two different temporaries joined by an
\* edge of the interference graph that both hold a register hold different
\* registers
C13_NeighboursDiffer ==
    alloc.calls > 0 =>
      \A a, b \in DOMAIN alloc.coloring :
         (a # b /\ {a, b} \in alloc.interference_graph.edges) =>
            alloc.coloring[a] # alloc.coloring[b]

\* two joined temporaries both hold a register, in a function where a
\* temporary was spilled as well as in one where none was
C13_Witness ==
    /\ alloc.calls > 0
    /\ \E a, b \in DOMAIN alloc.coloring :
          a # b /\ {a, b} \in alloc.interference_graph.edges
    /\ alloc.spilled_vars # {}

\* ------------------------------------------------------------------------
\* backend/x64_assembler.py: X64Assembler
\* ------------------------------------------------------------------------
MaxAsmLen == 3

\* the members of Register (x64_assembler.py), RegisterNames[v + 1] has value v
RegisterNames ==
    <<"RAX", "RCX", "RDX", "RBX", "RSP", "RBP", "RSI", "RDI",
      "R8", "R9", "R10", "R11", "R12", "R13", "R14", "R15">>

UpperChar(c) ==
    IF c \in Range(LowerSeq)
    THEN UpperSeq[CHOOSE i \in DOMAIN LowerSeq : LowerSeq[i] = c]
    ELSE c

\* str.upper of a sequence of characters, as a str
RECURSIVE UpperStr(_)
UpperStr(s) == IF s = <<>> THEN "" ELSE UpperChar(Head(s)) \o UpperStr(Tail(s))

\* a | b of two naturals
RECURSIVE BitOr(_, _)
BitOr(a, b) ==
    IF a = 0 THEN b
    ELSE IF b = 0 THEN a
    ELSE (IF a % 2 = 1 \/ b % 2 = 1 THEN 1 ELSE 0) + 2 * BitOr(a \div 2, b \div 2)

\* value & (m - 1) for m a power of two, value of either sign
Masked(value, m) == ((value % m) + m) % m

\* value // m for m above 0, value of either sign
FloorDiv(value, m) ==
    IF value >= 0 THEN value \div m ELSE 0 - (((0 - value) + m - 1) \div m)

\* the n bytes of value in two's complement, the low byte first; value is
\* within 32 bits, so the bytes after the fourth repeat its sign
LeBytes(value, n) ==
    [i \in 1..n |->
        IF i <= 4 THEN Masked(FloorDiv(value, 256 ^ (i - 1)), 256)
        ELSE IF value < 0 THEN 255 ELSE 0]

\* Operand(type, value): size 8, no base, no index, scale 1, displacement 0;
\* a base or index that is None is -1, a Register is its value
Operand(type, value) ==
    [type |-> type, value |-> value, size |-> 8, base |-> -1, index |-> -1,
     scale |-> 1, displacement |-> 0]

\* X64Assembler._parse_operand; an operand is given as a str (its
\* characters), an int or an Operand
ParseOperand(op) ==
    CASE op.kind = "str" ->
           IF \E r \in DOMAIN RegisterNames : RegisterNames[r] = UpperStr(op.text)
           THEN Operand("reg", (CHOOSE r \in DOMAIN RegisterNames :
                                   RegisterNames[r] = UpperStr(op.text)) - 1)
           ELSE Operand("label", op.text)
      [] op.kind = "int" -> Operand("imm", op.int)
      [] op.kind = "Operand" -> op.op

\* X64Assembler._needs_rex
NeedsRex(op) ==
    CASE op.type = "reg" -> op.value >= 8
      [] op.type = "mem" -> (op.base # -1 /\ op.base >= 8) \/ (op.index # -1 /\ op.index >= 8)
      [] OTHER -> FALSE

\* X64Assembler._needs_sib
NeedsSib(op) == op.type = "mem" /\ (op.index # -1 \/ op.base = 4)

InByte(n) == -128 <= n /\ n <= 127

\* X64Assembler._get_mov_size
GetMovSize(operands) ==
    IF Len(operands) # 2 THEN 0
    ELSE With([dst \in {ParseOperand(operands[1])} |->
         With([src \in {ParseOperand(operands[2])} |->
            (IF NeedsRex(dst) \/ NeedsRex(src) THEN 1 ELSE 0)
            + 1 + 1
            + (IF NeedsSib(dst) \/ NeedsSib(src) THEN 1 ELSE 0)
            + (IF dst.displacement # 0 \/ src.displacement # 0
               THEN IF InByte(IF dst.displacement # 0 THEN dst.displacement
                              ELSE src.displacement)
                    THEN 1 ELSE 4
               ELSE 0)
            + (IF src.type = "imm"
               THEN IF InByte(src.value) THEN 1 ELSE IF dst.size = 4 THEN 4 ELSE 8
               ELSE 0)])])

\* X64Assembler._get_push_size and _get_pop_size
GetPushSize(operands) ==
    IF operands = <<>> THEN 0
    ELSE 1 + (IF NeedsRex(ParseOperand(operands[1])) THEN 1 ELSE 0)

GetPopSize(operands) ==
    IF operands = <<>> THEN 0
    ELSE 1 + (IF NeedsRex(ParseOperand(operands[1])) THEN 1 ELSE 0)

\* X64Assembler._get_call_size
GetCallSize(instr) ==
    IF "target" \in DOMAIN instr THEN 5
    ELSE IF "operands" \in DOMAIN instr /\ instr.operands # <<>>
    THEN IF ParseOperand(instr.operands[1]).type = "reg" THEN 2 ELSE 6
    ELSE 0

\* X64Assembler._get_alu_size
GetAluSize(operands) ==
    IF Len(operands) # 2 THEN 0
    ELSE With([dst \in {ParseOperand(operands[1])} |->
         With([src \in {ParseOperand(operands[2])} |->
            (IF NeedsRex(dst) \/ NeedsRex(src) THEN 1 ELSE 0)
            + 1 + 1
            + (IF src.type = "imm" THEN IF InByte(src.value) THEN 1 ELSE 4 ELSE 0)])])

\* X64Assembler._get_lea_size
GetLeaSize(operands) ==
    IF Len(operands) # 2 THEN 0
    ELSE With([dst \in {ParseOperand(operands[1])} |->
         With([src \in {ParseOperand(operands[2])} |->
            (IF NeedsRex(dst) \/ NeedsRex(src) THEN 1 ELSE 0)
            + 1 + 1
            + (IF NeedsSib(src) THEN 1 ELSE 0)
            + (IF src.displacement # 0
               THEN IF InByte(src.displacement) THEN 1 ELSE 4
               ELSE 0)])])

\* instr.get('operands', [])
OperandsOf(instr) == IF "operands" \in DOMAIN instr THEN instr.operands ELSE <<>>

\* X64Assembler._get_instruction_size
GetInstructionSize(instr) ==
    CASE instr.opcode = "mov" -> GetMovSize(OperandsOf(instr))
      [] instr.opcode = "push" -> GetPushSize(OperandsOf(instr))
      [] instr.opcode = "pop" -> GetPopSize(OperandsOf(instr))
      [] instr.opcode = "call" -> GetCallSize(instr)
      [] instr.opcode = "ret" -> 1
      [] instr.opcode \in {"add", "sub", "and", "or", "xor"} -> GetAluSize(OperandsOf(instr))
      [] instr.opcode = "lea" -> GetLeaSize(OperandsOf(instr))
      [] OTHER -> 0

\* the assembler with bytes appended to self.code, and with an exception in
\* flight
Emitted(A, bytes) == [A EXCEPT !.code = @ \o bytes]

Raising(A, exc) == [A EXCEPT !.raised = exc]

\* X64Assembler._emit_immediate: struct.pack('<Q', value) takes no value
\* below 0
EmitImmediate(A, value, size) ==
    CASE size = 1 -> Emitted(A, <<Masked(value, 256)>>)
      [] size = 2 -> Emitted(A, LeBytes(value, 2))
      [] size = 4 -> Emitted(A, LeBytes(value, 4))
      [] size = 8 -> IF value < 0 THEN Raising(A, "struct.error")
                     ELSE Emitted(A, LeBytes(value, 8))
      [] OTHER -> A

\* X64Assembler._emit_modrm_sib, reg the value of the Register
EmitModrmSib(A, mem, reg) ==
    IF mem.base = -1 /\ mem.index = -1
    THEN EmitImmediate(Emitted(A, <<BitOr(reg * 8, 4), 37>>), mem.displacement, 4)
    ELSE IF mem.index = -1
    THEN IF mem.displacement = 0
         THEN Emitted(A, <<BitOr(reg * 8, mem.base)>>)
         ELSE IF InByte(mem.displacement)
         THEN Emitted(A, <<BitOr(64, BitOr(reg * 8, mem.base)),
                           Masked(mem.displacement, 256)>>)
         ELSE EmitImmediate(Emitted(A, <<BitOr(128, BitOr(reg * 8, mem.base))>>),
                            mem.displacement, 4)
    ELSE IF mem.scale \notin {1, 2, 4, 8}
    THEN Raising(Emitted(A, <<BitOr(4, reg * 8)>>), "KeyError")
    ELSE With([sib \in {Emitted(A,
                 <<BitOr(4, reg * 8),
                   BitOr((CASE mem.scale = 1 -> 0 [] mem.scale = 2 -> 1
                            [] mem.scale = 4 -> 2 [] mem.scale = 8 -> 3) * 64,
                         BitOr(mem.index * 8, IF mem.base # -1 THEN mem.base ELSE 5))>>)} |->
            IF mem.displacement # 0 \/ mem.base = -1
            THEN IF mem.base = -1 THEN EmitImmediate(sib, mem.displacement, 4)
                 ELSE IF InByte(mem.displacement)
                 THEN Emitted(sib, <<Masked(mem.displacement, 256)>>)
                 ELSE EmitImmediate(sib, mem.displacement, 4)
            ELSE sib])

\* the REX prefix of mov, sub and lea
RexIfNeeded(A, dst_op, src_op) ==
    IF NeedsRex(dst_op) \/ NeedsRex(src_op) THEN Emitted(A, <<72>>) ELSE A

\* X64Assembler._assemble_mov
AssembleMov(A, dst, src) ==
    With([dst_op \in {ParseOperand(dst)} |->
    With([src_op \in {ParseOperand(src)} |->
    With([B \in {RexIfNeeded(A, dst_op, src_op)} |->
        CASE dst_op.type = "reg" /\ src_op.type = "reg" ->
               Emitted(B, <<137, BitOr(192, BitOr(src_op.value * 8, dst_op.value))>>)
          [] dst_op.type = "reg" /\ src_op.type = "imm" ->
               EmitImmediate(Emitted(B, <<184 + dst_op.value>>), src_op.value, dst_op.size)
          [] dst_op.type = "reg" /\ src_op.type = "mem" ->
               EmitModrmSib(Emitted(B, <<139>>), src_op, dst_op.value)
          [] dst_op.type = "mem" /\ src_op.type = "reg" ->
               EmitModrmSib(Emitted(B, <<137>>), dst_op, src_op.value)
          [] OTHER -> B])])])

\* X64Assembler._assemble_push and _assemble_pop
AssemblePush(A, operand) ==
    With([op \in {ParseOperand(operand)} |->
        IF op.type = "reg"
        THEN Emitted(IF NeedsRex(op) THEN Emitted(A, <<65>>) ELSE A, <<80 + op.value>>)
        ELSE A])

AssemblePop(A, operand) ==
    With([op \in {ParseOperand(operand)} |->
        IF op.type = "reg"
        THEN Emitted(IF NeedsRex(op) THEN Emitted(A, <<65>>) ELSE A, <<88 + op.value>>)
        ELSE A])

\* X64Assembler._assemble_call_external
AssembleCallExternal(A, target) ==
    [A EXCEPT !.code = @ \o <<232, 0, 0, 0, 0>>,
              !.external_symbols = @ \cup {target},
              !.fixups = Append(@, [offset |-> Len(A.code) + 1, label |-> target])]

\* X64Assembler._assemble_call; an operand that is neither a label nor a
\* register has no value.value (AttributeError)
AssembleCall(A, target) ==
    With([op \in {ParseOperand(target)} |->
        CASE op.type = "label" ->
               IF op.value \in DOMAIN A.labels
               THEN Emitted(A, <<232>> \o
                        LeBytes(A.labels[op.value] - (Len(A.code) + 1 + 4), 4))
               ELSE [A EXCEPT !.code = @ \o <<232, 0, 0, 0, 0>>,
                              !.fixups = Append(@, [offset |-> Len(A.code) + 1,
                                                    label |-> op.value])]
          [] op.type = "reg" -> Emitted(A, <<255, BitOr(208, op.value)>>)
          [] OTHER -> Raising(Emitted(A, <<255>>), "AttributeError")])

\* X64Assembler._assemble_sub
AssembleSub(A, dst, src) ==
    With([dst_op \in {ParseOperand(dst)} |->
    With([src_op \in {ParseOperand(src)} |->
    With([B \in {RexIfNeeded(A, dst_op, src_op)} |->
        IF dst_op.type = "reg" /\ src_op.type = "imm"
        THEN IF InByte(src_op.value)
             THEN Emitted(B, <<131, 232 + dst_op.value, Masked(src_op.value, 256)>>)
             ELSE EmitImmediate(Emitted(B, <<129, 232 + dst_op.value>>), src_op.value, 4)
        ELSE B])])])

\* X64Assembler._assemble_lea; a destination that is not a register has no
\* value.value (AttributeError)
AssembleLea(A, dst, src) ==
    With([dst_op \in {ParseOperand(dst)} |->
    With([src_op \in {ParseOperand(src)} |->
    With([B \in {Emitted(RexIfNeeded(A, dst_op, src_op), <<141>>)} |->
        IF dst_op.type # "reg" THEN Raising(B, "AttributeError")
        ELSE EmitModrmSib(B, src_op, dst_op.value)])])])

\* X64Assembler._assemble_instruction; operands[0] and operands[1] of a
\* list too short raise IndexError
AssembleInstruction(A, instr) ==
    With([operands \in {OperandsOf(instr)} |->
        CASE instr.opcode = "mov" ->
               IF Len(operands) < 2 THEN Raising(A, "IndexError")
               ELSE AssembleMov(A, operands[1], operands[2])
          [] instr.opcode = "push" ->
               IF operands = <<>> THEN Raising(A, "IndexError")
               ELSE AssemblePush(A, operands[1])
          [] instr.opcode = "pop" ->
               IF operands = <<>> THEN Raising(A, "IndexError")
               ELSE AssemblePop(A, operands[1])
          [] instr.opcode = "call" ->
               IF "target" \in DOMAIN instr THEN AssembleCallExternal(A, instr.target)
               ELSE IF operands # <<>> THEN AssembleCall(A, operands[1])
               ELSE Raising(A, "ValueError")
          [] instr.opcode = "ret" -> Emitted(A, <<195>>)
          [] instr.opcode = "sub" ->
               IF Len(operands) < 2 THEN Raising(A, "IndexError")
               ELSE AssembleSub(A, operands[1], operands[2])
          [] instr.opcode = "lea" ->
               IF Len(operands) < 2 THEN Raising(A, "IndexError")
               ELSE AssembleLea(A, operands[1], operands[2])
          [] OTHER -> A])

\* assemble, the first pass from instruction i on: self.labels, and in
\* offsets the value of offset when the pass came to each instruction
RECURSIVE FirstPass(_, _, _, _, _)
FirstPass(instructions, i, offset, labels, offsets) ==
    IF i > Len(instructions) THEN [labels |-> labels, offsets |-> offsets]
    ELSE IF "label" \in DOMAIN instructions[i]
    THEN FirstPass(instructions, i + 1, offset,
                   [l \in DOMAIN labels \cup {instructions[i].label} |->
                       IF l = instructions[i].label THEN offset ELSE labels[l]],
                   Append(offsets, offset))
    ELSE FirstPass(instructions, i + 1, offset + GetInstructionSize(instructions[i]),
                   labels, Append(offsets, offset))

\* assemble, the second pass from instruction i on; starts holds
\* len(self.code) when the pass came to each instruction
RECURSIVE SecondPass(_, _, _)
SecondPass(A, instructions, i) ==
    IF i > Len(instructions) \/ A.raised # "" THEN A
    ELSE With([B \in {[A EXCEPT !.starts = Append(@, Len(A.code))]} |->
            SecondPass(IF "label" \in DOMAIN instructions[i] THEN B
                       ELSE AssembleInstruction(B, instructions[i]),
                       instructions, i + 1)])

\* X64Assembler._apply_fixups, from fixup n on
RECURSIVE ApplyFixups(_, _)
ApplyFixups(A, n) ==
    IF n > Len(A.fixups) THEN A
    ELSE With([fx \in {A.fixups[n]} |->
        IF fx.label \in A.external_symbols THEN ApplyFixups(A, n + 1)
        ELSE IF fx.label \notin DOMAIN A.labels THEN Raising(A, "ValueError")
        ELSE With([rel \in {LeBytes(A.labels[fx.label] - (fx.offset + 4), 4)} |->
                ApplyFixups([A EXCEPT !.code =
                                [p \in DOMAIN A.code |->
                                    IF fx.offset < p /\ p <= fx.offset + 4
                                    THEN rel[p - fx.offset] ELSE A.code[p]]],
                            n + 1)])])

\* X64Assembler.__init__
NewAssembler ==
    [code |-> <<>>, labels |-> <<>>, fixups |-> <<>>, external_symbols |-> {},
     offsets |-> <<>>, starts |-> <<>>, raised |-> ""]

\* X64Assembler.assemble: the assembler after the call; bytes(self.code) is
\* returned unless raised names an exception
Assemble(instructions) ==
    With([p \in {FirstPass(instructions, 1, 0, <<>>, <<>>)} |->
    With([A \in {SecondPass([NewAssembler EXCEPT !.labels = p.labels, !.offsets = p.offsets],
                            instructions, 1)} |->
        IF A.raised # "" THEN A ELSE ApplyFixups(A, 1)])])

\* operands as they are given to the assembler
StrOp(text) == [kind |-> "str", text |-> text]

IntOp(n) == [kind |-> "int", int |-> n]

\* Operand(OperandType.MEMORY, 0, base=..., displacement=...)
MemOp(base, displacement) ==
    [kind |-> "Operand",
     op |-> [Operand("mem", 0) EXCEPT !.base = base, !.displacement = displacement]]

\* the instructions the lists given to the assembler are made of
AsmPool ==
    { [label |-> <<"L">>],
      [opcode |-> "mov", operands |-> <<StrOp(<<"r","a","x">>), StrOp(<<"r","b","x">>)>>],
      [opcode |-> "mov", operands |-> <<StrOp(<<"r","8">>), StrOp(<<"R","A","X">>)>>],
      [opcode |-> "mov", operands |-> <<StrOp(<<"r","a","x">>), IntOp(1)>>],
      [opcode |-> "mov", operands |-> <<StrOp(<<"r","a","x">>), MemOp(5, -8)>>],
      [opcode |-> "mov", operands |-> <<MemOp(4, 200), StrOp(<<"r","c","x">>)>>],
      [opcode |-> "push", operands |-> <<StrOp(<<"r","b","p">>)>>],
      [opcode |-> "pop", operands |-> <<StrOp(<<"r","1","2">>)>>],
      [opcode |-> "ret"],
      [opcode |-> "call", target |-> <<"p","r","i","n","t","f">>],
      [opcode |-> "call", operands |-> <<StrOp(<<"L">>)>>],
      [opcode |-> "sub", operands |-> <<StrOp(<<"r","s","p">>), IntOp(32)>>],
      [opcode |-> "lea", operands |-> <<StrOp(<<"r","c","x">>), MemOp(-1, 4096)>>],
      [opcode |-> "add", operands |-> <<StrOp(<<"r","a","x">>), StrOp(<<"r","b","x">>)>>] }

AsmInputs == SeqsUpTo(AsmPool, MaxAsmLen)

AsmInit ==
    /\ asm \in { [instructions |-> l, assembler |-> NewAssembler, ran |-> FALSE] :
                 l \in AsmInputs }
    /\ BesideAsmIdle

\* code = assembler.assemble(instructions)
AssembleStep ==
    /\ ~asm.ran
    /\ asm' = [asm EXCEPT !.assembler = Assemble(asm.instructions), !.ran = TRUE]
    /\ UNCHANGED besideAsm

AsmNext == AssembleStep

SpecAssembler == AsmInit /\ [][AsmNext]_vars

\* the number of bytes the second pass emitted for instruction i
BytesEmitted(i) ==
    (IF i < Len(asm.instructions) THEN asm.assembler.starts[i + 1]
     ELSE Len(asm.assembler.code))
    - asm.assembler.starts[i]

\* C14: when assemble returns, the size the first pass computed for each
\* instruction is the number of bytes the second pass emitted for it, and
\* the offset recorded at each label is the position in the output of the
\* first byte emitted after the label
C14_SizesMatch ==
    (asm.ran /\ asm.assembler.raised = "") =>
      \A i \in DOMAIN asm.instructions :
         IF "label" \in DOMAIN asm.instructions[i]
         THEN asm.assembler.offsets[i] = asm.assembler.starts[i]
         ELSE GetInstructionSize(asm.instructions[i]) = BytesEmitted(i)

\* ------------------------------------------------------------------------
\* backend/pe_generator.py: PEGenerator
\* ------------------------------------------------------------------------
MaxImports == 2

\* the characters of ASCII from the space (32) to the underscore (95), and
\* from a (97) to the tilde (126)
AsciiLow ==
    <<" ", "!", "\"", "#", "$", "%", "&", "'", "(", ")", "*", "+", ",", "-", ".", "/",
      "0", "1", "2", "3", "4", "5", "6", "7", "8", "9", ":", ";", "<", "=", ">", "?",
      "@", "A", "B", "C", "D", "E", "F", "G", "H", "I", "J", "K", "L", "M", "N", "O",
      "P", "Q", "R", "S", "T", "U", "V", "W", "X", "Y", "Z", "[", "\\", "]", "^", "_">>

AsciiHigh ==
    <<"a", "b", "c", "d", "e", "f", "g", "h", "i", "j", "k", "l", "m", "n", "o",
      "p", "q", "r", "s", "t", "u", "v", "w", "x", "y", "z", "{", "|", "}", "~">>

\* ord(c) of one of these characters
Ord(c) ==
    IF \E i \in DOMAIN AsciiLow : AsciiLow[i] = c
    THEN 31 + CHOOSE i \in DOMAIN AsciiLow : AsciiLow[i] = c
    ELSE 96 + CHOOSE i \in DOMAIN AsciiHigh : AsciiHigh[i] = c

\* text.encode('ascii') of a sequence of characters
Encode(text) == [i \in DOMAIN text |-> Ord(text[i])]

\* bytes(n)
Zeros(n) == [i \in 1..n |-> 0]

\* struct.pack('<H', n), struct.pack('<I', n), struct.pack('<Q', n)
U16(n) == LeBytes(n, 2)

U32(n) == LeBytes(n, 4)

U64(n) == LeBytes(n, 8)

\* (value + 511) & ~511 and (value + 0xFFF) & ~0xFFF
AlignFile(value) == ((value + 511) \div 512) * 512

AlignPage(value) == ((value + 4095) \div 4096) * 4096

RECURSIVE SumOf(_)
SumOf(s) ==
    IF Len(s) = 0 THEN 0
    ELSE IF Len(s) = 1 THEN s[1]
    ELSE SumOf(SubSeq(s, 1, Len(s) \div 2)) + SumOf(SubSeq(s, Len(s) \div 2 + 1, Len(s)))

\* Section(...); characteristics, a value of 32 bits without sign, is kept
\* as its four bytes, the low byte first
Section(name, virtual_address, virtual_size, raw_data_size, raw_data_ptr,
        characteristics, data) ==
    [name |-> name, virtual_address |-> virtual_address, virtual_size |-> virtual_size,
     raw_data_size |-> raw_data_size, raw_data_ptr |-> raw_data_ptr,
     characteristics |-> characteristics, data |-> data]

\* 0x60000020 (CODE|EXECUTE|READ) and 0xC0000040 (INITIALIZED_DATA|READ|WRITE)
CodeCharacteristics == <<32, 0, 0, 96>>

DataCharacteristics == <<64, 0, 0, 192>>

\* PEGenerator.add_section
AddSection(G, section) == [G EXCEPT !.sections = Append(@, section)]

\* iterating a str gives its characters, each a str of length one
IterStr(text) == [i \in DOMAIN text |-> <<text[i]>>]

\* PEGenerator.add_import(dll, functions): items is what iterating
\* functions gives, the elements of a list or the characters of a str
AddImport(G, dll, items) ==
    IF \E n \in DOMAIN G.imports : G.imports[n].dll = dll
    THEN [G EXCEPT !.imports =
            [n \in DOMAIN G.imports |->
                IF G.imports[n].dll = dll
                THEN [G.imports[n] EXCEPT !.functions = @ \o items]
                ELSE G.imports[n]]]
    ELSE [G EXCEPT !.imports = Append(@, [dll |-> dll, functions |-> items])]

\* the functions of all the DLLs in the order of self.imports.items()
RECURSIVE FlatImports(_)
FlatImports(imports) ==
    IF imports = <<>> THEN <<>>
    ELSE [i \in DOMAIN Head(imports).functions |->
             [dll |-> Head(imports).dll, func |-> Head(imports).functions[i]]]
         \o FlatImports(Tail(imports))

\* the offset in the Hint/Name table where entry n starts
HintNameStart(flat, n) == SumOf([j \in 1..(n - 1) |-> 2 + Len(flat[j].func) + 1])

\* name_rvas[dll][func]: the start of the last entry written for the name
NameRva(flat, dll, func) ==
    HintNameStart(flat, CHOOSE n \in DOMAIN flat :
        /\ flat[n].dll = dll /\ flat[n].func = func
        /\ \A m \in DOMAIN flat : (flat[m].dll = dll /\ flat[m].func = func) => m <= n)

\* ilt_offsets[dll] of the n-th DLL
IltOffset(imports, n) ==
    (Len(imports) + 1) * 20 + SumOf([j \in 1..(n - 1) |-> (Len(imports[j].functions) + 1) * 8])

RECURSIVE ConcatBytes(_)
ConcatBytes(parts) ==
    IF Len(parts) = 0 THEN <<>>
    ELSE IF Len(parts) = 1 THEN parts[1]
    ELSE ConcatBytes(SubSeq(parts, 1, Len(parts) \div 2))
         \o ConcatBytes(SubSeq(parts, Len(parts) \div 2 + 1, Len(parts)))

\* PEGenerator._add_import_section: the bytes of import_data
ImportData(imports) ==
    With([flat \in {FlatImports(imports)} |->
    With([hint_name_offset \in {IltOffset(imports, Len(imports) + 1)} |->
        ConcatBytes([n \in DOMAIN imports |->
            U32(IltOffset(imports, n)) \o U32(0) \o U32(0) \o U32(hint_name_offset)
            \o U32(IltOffset(imports, n))])
        \o Zeros(20)
        \o ConcatBytes([n \in DOMAIN imports |->
              ConcatBytes([i \in DOMAIN imports[n].functions |->
                  U64(NameRva(flat, imports[n].dll, imports[n].functions[i]))])
              \o Zeros(8)])
        \o ConcatBytes([n \in DOMAIN flat |-> U16(0) \o Encode(flat[n].func) \o <<0>>])
        \o Zeros(SumOf([n \in DOMAIN imports |-> Len(imports[n].dll) + 1]))])])

\* PEGenerator._add_import_section
AddImportSection(G) ==
    With([import_data \in {ImportData(G.imports)} |->
        AddSection(G, Section(<<".","i","d","a","t","a">>, 12288, Len(import_data),
                              Len(import_data), 0, DataCharacteristics, import_data))])

\* PEGenerator._calculate_headers_size (the later of the two definitions)
CalculateHeadersSize(G) == AlignFile(64 + 4 + 20 + 240 + Len(G.sections) * 40)

\* PEGenerator._calculate_image_size
CalculateImageSize(G) ==
    With([ends \in {{ G.sections[n].virtual_address + G.sections[n].virtual_size :
                       n \in DOMAIN G.sections } \cup {0}} |->
        AlignPage(CHOOSE e \in ends : \A o \in ends : o <= e)])

\* generate, the loop that calculates the offsets, from section n on
RECURSIVE CalculateOffsets(_, _, _)
CalculateOffsets(sections, n, current_offset) ==
    IF n > Len(sections) THEN sections
    ELSE CalculateOffsets([sections EXCEPT ![n].raw_data_ptr = AlignFile(current_offset)],
                          n + 1, AlignFile(current_offset) + sections[n].raw_data_size)

\* PEGenerator._write_dos_header: the bytes written
DosHeader ==
    U16(23117)
    \o <<14, 31, 186, 14, 0, 180, 9, 205, 33, 184, 1, 76, 205, 33, 84, 104,
         105, 115, 32, 112, 114, 111, 103, 114, 97, 109, 32, 99, 97, 110, 110, 111,
         116, 32, 98, 101, 32, 114, 117, 110, 32, 105, 110, 32, 68, 79, 83, 32,
         109, 111, 100, 101, 46, 13, 13, 10, 36, 0, 0, 0, 0, 0, 0, 0>>
    \o U32(128)

\* the raw_data_size of the sections whose characteristics have the bit
SizeOfSections(G, bit) ==
    SumOf([n \in DOMAIN G.sections |->
              IF (G.sections[n].characteristics[1] \div bit) % 2 = 1
              THEN G.sections[n].raw_data_size ELSE 0])

\* PEGenerator._write_nt_headers: the bytes written (ImageBase 0x140000000
\* is above 32 bits and is given by its bytes)
NtHeaders(G) ==
    U32(17744)
    \o U16(34404) \o U16(Len(G.sections)) \o U32(0) \o U32(0) \o U32(0)
    \o U16(240) \o U16(34)
    \o U16(523) \o <<1>> \o <<0>>
    \o U32(SizeOfSections(G, 32)) \o U32(SizeOfSections(G, 64)) \o U32(0)
    \o U32(G.entry_point) \o U32(4096)
    \o <<0, 0, 0, 64, 1, 0, 0, 0>> \o U32(4096) \o U32(512)
    \o U16(6) \o U16(0) \o U16(0) \o U16(0) \o U16(6) \o U16(0)
    \o U32(0) \o U32(CalculateImageSize(G)) \o U32(CalculateHeadersSize(G)) \o U32(0)
    \o U16(3) \o U16(33120)
    \o U64(1048576) \o U64(4096) \o U64(1048576) \o U64(4096)
    \o U32(0) \o U32(16)
    \o ConcatBytes([i \in 1..16 |->
          IF i - 1 = 1 /\ G.imports # <<>> THEN U32(12288) \o U32(256) ELSE U64(0)])

\* section.name.encode('ascii')[:8].ljust(8, b'\0')
NameField(name) ==
    [i \in 1..8 |-> IF i <= Len(name) THEN Ord(name[i]) ELSE 0]

\* PEGenerator._write_section_headers: the bytes written
SectionHeaders(G) ==
    ConcatBytes([n \in DOMAIN G.sections |->
        NameField(G.sections[n].name)
        \o U32(G.sections[n].virtual_size) \o U32(G.sections[n].virtual_address)
        \o U32(G.sections[n].raw_data_size) \o U32(G.sections[n].raw_data_ptr)
        \o U32(0) \o U32(0) \o U16(0) \o U16(0)
        \o G.sections[n].characteristics])

\* generate, the loop that writes the sections, from section n on: the
\* bytes of the file
RECURSIVE WriteSections(_, _, _)
WriteSections(written, sections, n) ==
    IF n > Len(sections) THEN written
    ELSE WriteSections(
            written
            \o (IF sections[n].raw_data_ptr - Len(written) > 0
                THEN Zeros(sections[n].raw_data_ptr - Len(written)) ELSE <<>>)
            \o sections[n].data
            \o Zeros(AlignFile(sections[n].raw_data_size) - sections[n].raw_data_size),
            sections, n + 1)

\* the headers of the file, as generate writes them
FileHeaders(G) == DosHeader \o NtHeaders(G) \o SectionHeaders(G)

\* a plausible slip of the handler of generate: the partial file is left
KeepFile(fs, env) == fs

\* the handler of generate: the file at the output path is unlinked when
\* there is one, a failure of unlink is passed over
RemoveFile(fs, env) ==
    IF fs.exists /\ ~env.unlink_fails THEN [exists |-> FALSE, content |-> <<>>] ELSE fs

GenerateFailed(G, fs, env, exc) ==
    [gen |-> G, fs |-> RemoveFile(fs, env), st |-> "raised", exc |-> exc]

\* generate up to the offsets: the sections .text and .data, the import
\* section, the offsets of the raw data
LaidOut(G, code, data) ==
    With([S \in {[G EXCEPT !.sections =
                    <<Section(<<".","t","e","x","t">>, 4096, Len(code), Len(code), 0,
                              CodeCharacteristics, code),
                      Section(<<".","d","a","t","a">>, 8192, Len(data), Len(data), 0,
                              DataCharacteristics, data)>>]} |->
    With([I \in {IF S.imports # <<>> THEN AddImportSection(S) ELSE S} |->
        [I EXCEPT !.sections = CalculateOffsets(@, 1, CalculateHeadersSize(I))]])])

\* PEGenerator.generate(output_file, code, data) (the later of the two
\* definitions): the generator and the file at the output path after it,
\* st "ok" when it returns, "raised" when it raises exc, "exit" when the
\* process is relaunched with more rights and sys.exit(0) ends this one.
\* env is what the system does: env.platform is "posix", or on Windows
\* without the rights of an administrator "nt_elevate" (ShellExecuteW
\* succeeds) or "nt_refused"; mkdir, open, a write and unlink fail when the
\* flag of env says so (the write that fails is the first of a section)
GeneratePE(G, fs, env, code, data) ==
    IF env.platform = "nt_elevate"
    THEN [gen |-> G, fs |-> fs, st |-> "exit", exc |-> "SystemExit"]
    ELSE IF env.platform = "nt_refused" THEN GenerateFailed(G, fs, env, "PermissionError")
    ELSE IF env.mkdir_fails THEN GenerateFailed(G, fs, env, "OSError")
    ELSE With([L \in {LaidOut(G, code, data)} |->
        IF env.open_fails THEN GenerateFailed(L, fs, env, "OSError")
        ELSE With([E \in {[L EXCEPT !.entry_point = 4096]} |->
            IF env.write_fails
            THEN GenerateFailed(E, [exists |-> TRUE, content |-> FileHeaders(E)], env, "OSError")
            ELSE [gen |-> E,
                  fs |-> [exists |-> TRUE,
                          content |-> WriteSections(FileHeaders(E), E.sections, 1)],
                  st |-> "ok", exc |-> ""]])])

\* ------------------------------------------------------------------------
\* backend/windows_backend.py: WindowsBackend
\* ------------------------------------------------------------------------
\* WindowsBackend._convert_operand: an operand of the IR is a str, an int,
\* a dict or something else; [kind |-> "raise"] when it raises
ConvertOperand(op) ==
    CASE op.kind = "str" ->
           IF \E r \in DOMAIN RegisterNames : RegisterNames[r] = UpperStr(op.text)
           THEN [kind |-> "Operand",
                 op |-> Operand("reg", (CHOOSE r \in DOMAIN RegisterNames :
                                           RegisterNames[r] = UpperStr(op.text)) - 1)]
           ELSE [kind |-> "Operand", op |-> Operand("label", op.text)]
      [] op.kind = "int" -> [kind |-> "Operand", op |-> Operand("imm", op.int)]
      [] op.kind = "dict" /\ op.type = "register" ->
           IF \E r \in DOMAIN RegisterNames : RegisterNames[r] = UpperStr(op.text)
           THEN [kind |-> "Operand",
                 op |-> Operand("reg", (CHOOSE r \in DOMAIN RegisterNames :
                                           RegisterNames[r] = UpperStr(op.text)) - 1)]
           ELSE [kind |-> "raise"]
      [] op.kind = "dict" /\ op.type = "memory" ->
           [kind |-> "Operand", op |-> Operand("mem", op.int)]
      [] op.kind = "dict" /\ op.type = "immediate" ->
           [kind |-> "Operand", op |-> Operand("imm", op.int)]
      [] OTHER -> [kind |-> "raise"]

\* the body of the loops of _generate_text_section: what one instruction
\* of the IR appends to instructions, <<>> when it is of another type
ConvertInstr(instr) ==
    IF instr.type = "label" THEN <<[label |-> instr.name]>>
    ELSE IF instr.type = "instruction"
    THEN IF instr.opcode = "call" /\ "target" \in DOMAIN instr
         THEN <<[opcode |-> "call", target |-> instr.target]>>
         ELSE <<[opcode |-> instr.opcode,
                 operands |-> [n \in DOMAIN instr.operands |->
                                  ConvertOperand(instr.operands[n])]]>>
    ELSE <<>>

ConvertRaises(instr) ==
    /\ instr.type = "instruction"
    /\ ~(instr.opcode = "call" /\ "target" \in DOMAIN instr)
    /\ \E n \in DOMAIN instr.operands : ConvertOperand(instr.operands[n]).kind = "raise"

\* the instructions of ir.get('init', []) and then of every function
IrInstructions(ir) ==
    ir.init \o ConcatBytes([n \in DOMAIN ir.functions |-> ir.functions[n].instructions])

\* WindowsBackend._generate_text_section: the machine code, b'' when
\* anything raises
GenerateTextSection(ir) ==
    With([all \in {IrInstructions(ir)} |->
        IF \E n \in DOMAIN all : ConvertRaises(all[n]) THEN <<>>
        ELSE With([A \in {Assemble(ConcatBytes([n \in DOMAIN all |-> ConvertInstr(all[n])]))} |->
                IF A.raised # "" THEN <<>> ELSE A.code])])

\* string.strip('"')
RECURSIVE LStripQuotes(_)
LStripQuotes(text) ==
    IF text # <<>> /\ Head(text) = "\"" THEN LStripQuotes(Tail(text)) ELSE text

RECURSIVE RStripQuotes(_)
RStripQuotes(text) ==
    IF text # <<>> /\ text[Len(text)] = "\""
    THEN RStripQuotes(SubSeq(text, 1, Len(text) - 1)) ELSE text

StripDoubleQuotes(text) == RStripQuotes(LStripQuotes(text))

\* WindowsBackend._generate_data_section
GenerateDataSection(ir) ==
    ConcatBytes([n \in DOMAIN ir.strings |->
                    Encode(StripDoubleQuotes(ir.strings[n].string)) \o <<0>>])

Kernel32 == <<"k","e","r","n","e","l","3","2",".","d","l","l">>

Msvcrt == <<"m","s","v","c","r","t",".","d","l","l">>

\* the names compile gives to add_import: "ExitProcess" and "printf"
Kernel32Symbol == <<"E","x","i","t","P","r","o","c","e","s","s">>

MsvcrtSymbol == <<"p","r","i","n","t","f">>

\* WindowsBackend.compile(ir, output_file): what it returns, the file at
\* the output path and the PEGenerator it made; generate is "" when
\* generate was not called, else how generate ended; on "exit" the process
\* has ended inside generate and compile returns nothing
BackendCompile(B, ir, fs, env) ==
    With([text_section \in {GenerateTextSection(ir)} |->
        IF text_section = <<>>
        THEN [ret |-> FALSE, fs |-> fs, pe_gen |-> NewPEGenerator, generate |-> ""]
        ELSE With([data_section \in {GenerateDataSection(ir)} |->
             With([T \in {AddSection(AddSection([NewPEGenerator EXCEPT !.entry_point = 4096],
                             Section(<<".","t","e","x","t">>, 4096, Len(text_section),
                                     Len(text_section), 0, CodeCharacteristics, text_section)),
                             Section(<<".","d","a","t","a">>, 8192, Len(data_section),
                                     Len(data_section), 0, DataCharacteristics, data_section))} |->
             With([K \in {AddImport(T, Kernel32, IterStr(Kernel32Symbol))} |->
             With([P \in {IF Cardinality(B.string_literals) > 0
                          THEN AddImport(K, Msvcrt, IterStr(MsvcrtSymbol)) ELSE K} |->
             With([r \in {GeneratePE(P, fs, env, text_section, data_section)} |->
                 [ret |-> r.st = "ok" /\ r.fs.exists, fs |-> r.fs, pe_gen |-> r.gen,
                  generate |-> r.st]])])])])])])

\* ------------------------------------------------------------------------
\* a PEGenerator and a WindowsBackend with their callers
\* ------------------------------------------------------------------------
\* what the system does while the file is written
Environments ==
    { e \in [platform : {"posix", "nt_admin", "nt_elevate", "nt_refused"},
             mkdir_fails : BOOLEAN, open_fails : BOOLEAN, write_fails : BOOLEAN,
             unlink_fails : BOOLEAN] :
        \* at most one of the steps is the one that fails
        /\ ~(e.mkdir_fails /\ e.open_fails)
        /\ ~(e.mkdir_fails /\ e.write_fails)
        /\ ~(e.open_fails /\ e.write_fails) }

\* the output path before the call: nothing, or a file left there before
FileSystems ==
    { [exists |-> FALSE, content |-> <<>>], [exists |-> TRUE, content |-> <<111, 108, 100>>] }

IrInstr(opcode, operands) == [type |-> "instruction", opcode |-> opcode, operands |-> operands]

DictOp(type, n) == [kind |-> "dict", type |-> type, int |-> n]

\* the instruction lists of the functions of the programs compiled
IrBodies ==
    { <<>>,
      <<IrInstr("ret", <<>>)>>,
      <<[type |-> "label", name |-> <<"m","a","i","n">>],
        IrInstr("mov", <<StrOp(<<"r","a","x">>), IntOp(0)>>),
        IrInstr("ret", <<>>)>>,
      <<IrInstr("sub", <<[kind |-> "dict", type |-> "register", text |-> <<"r","s","p">>],
                         DictOp("immediate", 40)>>),
        [type |-> "instruction", opcode |-> "call", operands |-> <<>>,
         target |-> MsvcrtSymbol],
        IrInstr("ret", <<>>)>>,
      <<IrInstr("mov", <<StrOp(<<"r","a","x">>), [kind |-> "none"]>>)>>,
      <<[type |-> "comment"], IrInstr("call", <<StrOp(<<"m","i","s","s","i","n","g">>)>>)>> }

\* the dict of the strings of a program: label and text, the quotes kept
IrStrings ==
    { <<>>,
      <<[label |-> <<"s","t","r","_","0">>, string |-> <<"\"","h","i","\"">>]>> }

BackendPrograms ==
    { [init |-> i, functions |-> <<[instructions |-> b]>>, strings |-> s] :
        i \in {<<>>, <<IrInstr("push", <<StrOp(<<"r","b","p">>)>>)>>},
        b \in IrBodies, s \in IrStrings }

\* the code and data given to generate by a caller of its own
CodePool == { <<195>>, Zeros(512), [i \in 1..513 |-> 144], Zeros(4097) }

DataPool == { <<>>, <<104, 105, 0>>, Zeros(4097) }

\* the arguments of add_import: a dll and what iterating functions gives
ImportPool ==
    { [dll |-> Kernel32, items |-> <<Kernel32Symbol>>],
      [dll |-> Kernel32, items |-> IterStr(<<"E","x","i","t">>)],
      [dll |-> Msvcrt, items |-> <<MsvcrtSymbol, <<"p","u","t","s">>>>],
      [dll |-> Msvcrt, items |-> <<MsvcrtSymbol>>] }

PeInit ==
    /\ pe \in { [PeIdleState EXCEPT !.fs = fs, !.env = env] :
                  fs \in FileSystems, env \in Environments }
    /\ BesidePeIdle

\* pe_generator.add_import(dll, functions)
AddImportStep ==
    /\ pe.last.op = ""
    /\ pe.added < MaxImports
    /\ \E a \in ImportPool :
          pe' = [pe EXCEPT !.gen = AddImport(pe.gen, a.dll, a.items), !.added = @ + 1]
    /\ UNCHANGED besidePe

\* pe_generator.generate(output_file, code, data)
PeGenerateStep ==
    /\ pe.last.op = ""
    /\ \E code \in CodePool, data \in DataPool :
         \E r \in {GeneratePE(pe.gen, pe.fs, pe.env, code, data)} :
            pe' = [pe EXCEPT !.gen = r.gen, !.fs = r.fs,
                             !.last = [op |-> "generate", st |-> r.st, ret |-> FALSE,
                                       pe_gen |-> r.gen, before |-> pe.fs.exists]]
    /\ UNCHANGED besidePe

\* backend.compile(ir, output_file)
BackendCompileStep ==
    /\ pe.last.op = ""
    /\ pe.added = 0
    /\ \E ir \in BackendPrograms :
         \E r \in {BackendCompile(pe.backend, ir, pe.fs, pe.env)} :
          pe' = [pe EXCEPT !.ir = ir, !.fs = r.fs,
                           !.last = [op |-> "compile", st |-> r.generate, ret |-> r.ret,
                                     pe_gen |-> r.pe_gen, before |-> pe.fs.exists]]
    /\ UNCHANGED besidePe

PeNext == AddImportStep \/ PeGenerateStep \/ BackendCompileStep

SpecBackend == PeInit /\ [][PeNext]_vars

\* the unsigned value of the four bytes of content at a file offset, the
\* low byte first
ReadU32(content, offset) ==
    content[offset + 1] + 256 * content[offset + 2] + 65536 * content[offset + 3]
    + 16777216 * content[offset + 4]

ReadU16(content, offset) == content[offset + 1] + 256 * content[offset + 2]

\* a file was written at the output path by generate, called by a client
\* or by compile
FileWritten == pe.last.op # "" /\ pe.last.st = "ok"

\* the file offset of section header n (from 0) in the file written: the
\* headers come after the DOS header and the NT headers
SectionHeaderOffset(n) == Len(DosHeader) + Len(NtHeaders(pe.last.pe_gen)) + 40 * n

\* NumberOfSections of the file header, two bytes after Machine
NumberOfSectionsWritten == ReadU16(pe.fs.content, Len(DosHeader) + 4 + 2)

\* C15: in every PE file written by generate, the PointerToRawData and the
\* SizeOfRawData of each section header are multiples of the file alignment
\* 0x200, and the VirtualAddress values are multiples of the section
\* alignment 0x1000 and strictly increasing in section order
C15_SectionsAligned ==
    FileWritten =>
      \A n \in 0..(NumberOfSectionsWritten - 1) :
         /\ ReadU32(pe.fs.content, SectionHeaderOffset(n) + 20) % 512 = 0
         /\ ReadU32(pe.fs.content, SectionHeaderOffset(n) + 16) % 512 = 0
         /\ ReadU32(pe.fs.content, SectionHeaderOffset(n) + 12) % 4096 = 0
         /\ n > 0 => ReadU32(pe.fs.content, SectionHeaderOffset(n) + 12)
                       > ReadU32(pe.fs.content, SectionHeaderOffset(n - 1) + 12)

\* what does hold of the section headers: the pointers and the addresses
C15_PointersAligned ==
    FileWritten =>
      \A n \in 0..(NumberOfSectionsWritten - 1) :
         /\ ReadU32(pe.fs.content, SectionHeaderOffset(n) + 20) % 512 = 0
         /\ ReadU32(pe.fs.content, SectionHeaderOffset(n) + 12) % 4096 = 0
         /\ n > 0 => ReadU32(pe.fs.content, SectionHeaderOffset(n) + 12)
                       > ReadU32(pe.fs.content, SectionHeaderOffset(n - 1) + 12)

\* the file offsets at which the four bytes 50 45 00 00 stand in content
SignatureOffsets(content) ==
    { o \in 0..(Len(content) - 4) : SubSeq(content, o + 1, o + 4) = <<80, 69, 0, 0>> }

\* C16: the file written by generate has the bytes MZ at offset 0, and the
\* value of the four bytes of e_lfanew at file offset 0x3C is the file
\* offset at which the PE signature 50 45 00 00 is written
C16_LfanewPointsAtSignature ==
    FileWritten =>
      /\ SubSeq(pe.fs.content, 1, 2) = <<77, 90>>
      /\ SubSeq(pe.fs.content, Len(DosHeader) + 1, Len(DosHeader) + 4) = <<80, 69, 0, 0>>
      /\ ReadU32(pe.fs.content, 60) = Len(DosHeader)

\* what does hold of the start of the file: MZ, and the signature written
\* right after the DOS header, which is the first place where it stands
C16_SignatureAfterDosHeader ==
    FileWritten =>
      /\ SubSeq(pe.fs.content, 1, 2) = <<77, 90>>
      /\ Len(DosHeader) \in SignatureOffsets(pe.fs.content)
      /\ \A o \in SignatureOffsets(pe.fs.content) : o >= Len(DosHeader)

\* the program compiled has a string literal
HasStringLiteral == pe.ir.strings # <<>>

\* C17: the PE file produced by compile imports exactly ExitProcess from
\* kernel32.dll, and also printf from msvcrt.dll exactly when the program
\* compiled has a string literal
C17_Imports ==
    (pe.last.op = "compile" /\ pe.last.st = "ok") =>
      pe.last.pe_gen.imports =
         <<[dll |-> Kernel32, functions |-> <<Kernel32Symbol>>]>>
         \o (IF HasStringLiteral THEN <<[dll |-> Msvcrt, functions |-> <<MsvcrtSymbol>>]>>
             ELSE <<>>)

\* what compile does import: from kernel32.dll alone, the characters of
\* ExitProcess one by one
C17_ImportsLetters ==
    (pe.last.op = "compile" /\ pe.last.st = "ok") =>
      pe.last.pe_gen.imports = <<[dll |-> Kernel32, functions |-> IterStr(Kernel32Symbol)]>>

\* generate failed: it raised an error to its caller
GenerateRaised == pe.last.op # "" /\ pe.last.st = "raised"

\* C18 as the specification states it: if generate fails at any step, no
\* file exists at the output path when it hands control back, and compile
\* reports the failure by returning False
C18_NoFileAfterFailure ==
    GenerateRaised => (~pe.fs.exists /\ (pe.last.op = "compile" => pe.last.ret = FALSE))

\* C18: if generate fails at any step, then when it hands control back a
\* file exists at the output path only if one was there when the handler
\* ran and its removal failed, and compile returns False
C18_NoFileUnlessUnlinkFails ==
    GenerateRaised =>
      /\ pe.fs.exists => pe.env.unlink_fails
      /\ pe.last.op = "compile" => pe.last.ret = FALSE

\* generate failed while it wrote, called by compile, and the partial file
\* was removed
C18_Witness ==
    /\ GenerateRaised
    /\ pe.last.op = "compile"
    /\ pe.env.write_fails
    /\ ~pe.fs.exists
    /\ pe.last.ret = FALSE

\* ------------------------------------------------------------------------
\* optimization.py: the loop of IROptimizer.optimize, one iteration at a time
\* ------------------------------------------------------------------------
MaxOptLen == 3

\* the iterations of the loop a run is followed for
MaxRounds == 4

BinaryNode(operator, left, right) ==
    [type |-> "BinaryExpression", operator |-> operator, left |-> left, right |-> right]

\* the expressions e of the functions fn f() -> i32 { return e; }
FoldedExpressions ==
    { BinaryNode("+", NumberNode(2), BinaryNode("*", NumberNode(3), NumberNode(4))),
      BinaryNode("*", NumberNode(2), NumberNode(3)),
      BinaryNode("-", BinaryNode("+", NumberNode(1), NumberNode(2)), NumberNode(3)),
      BinaryNode("+", BinaryNode("*", NumberNode(2), NumberNode(5)),
                      BinaryNode("*", NumberNode(3), NumberNode(4))) }

ReturnFunction(e) == FunctionDeclNode("f", <<>>, <<ReturnStmt(e)>>, "i32")

\* IRGenerator().generate(ast) of the program made of that function alone
ReturnIr(e) == Generate(NewIRGenerator, ProgramNode(<<ReturnFunction(e)>>)).ret

\* the instructions the other lists given to optimize are made of
LoopPool ==
    { IRInstruction("load_const", <<"1">>, "t0"),
      IRInstruction("load_const", <<"2">>, "t1"),
      IRInstruction("load_const", <<"s">>, "t1"),
      IRInstruction("add", <<"t0", "t1">>, "t2"),
      IRInstruction("add", <<"t0", "t1">>, "t3"),
      IRInstruction("store", <<"t2">>, "x"),
      IRInstruction("store", <<"t3">>, "y"),
      IRInstruction("label", <<"L0">>, "None"),
      IRInstruction("jump", <<"L0">>, "None"),
      IRInstruction("return", <<"t2">>, "None") }

LoopInputs ==
    SeqsUpTo(LoopPool, MaxOptLen) \cup { ReturnIr(e) : e \in FoldedExpressions }

\* the optimizer before optimize is called on a list
NewRun(instructions) ==
    [ir |-> instructions, blocks |-> <<>>, started |-> FALSE, changed |-> FALSE,
     rounds |-> 0, dce_in |-> <<>>, dce_out |-> <<>>, once |-> NotRun]

LoopInit ==
    /\ opt = NewRun(<<>>)
    /\ BesideOptIdle

\* optimize(instructions), up to the loop:
\* self.blocks = self._build_cfg(instructions); changed = True
BuildCfgStep ==
    /\ ~opt.started
    /\ \E instructions \in LoopInputs :
          opt' = [opt EXCEPT !.ir = instructions, !.started = TRUE, !.changed = TRUE,
                             !.blocks = BuildCfg(instructions)]
    /\ UNCHANGED besideOpt

\* one iteration of while changed: the three passes in their order; an
\* exception of a pass ends the call, which returns the list it was given
OptimizeRoundStep ==
    /\ opt.started /\ opt.once = NotRun /\ opt.changed
    /\ opt.rounds < MaxRounds
    /\ \E cf \in {ConstantFolding(opt.blocks)} :
         IF cf.raised # ""
         THEN opt' = [opt EXCEPT !.blocks = cf.blocks, !.rounds = @ + 1,
                                 !.once = [st |-> "ok", ret |-> opt.ir]]
         ELSE \E dce \in {DeadCodeElimination(cf.blocks)} :
              \E cse \in {CommonSubexpressionElimination(dce.blocks)} :
                 opt' = [opt EXCEPT !.blocks = cse.blocks, !.rounds = @ + 1,
                                    !.changed = cf.changed \/ dce.changed \/ cse.changed,
                                    !.dce_in = cf.blocks, !.dce_out = dce.blocks]
    /\ UNCHANGED besideOpt

\* return self._flatten_cfg()
OptimizeReturnStep ==
    /\ opt.started /\ opt.once = NotRun /\ ~opt.changed
    /\ opt' = [opt EXCEPT !.once = [st |-> "ok", ret |-> FlattenCfg(opt.blocks)]]
    /\ UNCHANGED besideOpt

LoopNext == BuildCfgStep \/ OptimizeRoundStep \/ OptimizeReturnStep

SpecOptimizeLoop == LoopInit /\ [][LoopNext]_vars

\* the call returns what the loop written as one function returns
LoopAgrees == opt.once # NotRun => opt.once.ret = Optimize(opt.ir).ret

\* the operations _common_subexpression_elimination and _constant_folding
\* replace
PureOps == {"add", "sub", "mul", "div", "and", "or", "not", "neg"}

\* the instructions of the blocks, those of a pure operation counted twice
Measure(blocks) ==
    SumOf([b \in DOMAIN blocks |->
              Len(blocks[b].instructions)
              + Cardinality({ i \in DOMAIN blocks[b].instructions :
                                blocks[b].instructions[i].op \in PureOps })])

\* C21: optimize terminates on every instruction list: an iteration of the
\* loop that reports a change leaves strictly fewer instructions and pure
\* operations than it found, so that an iteration in which none of the three
\* passes reports a change is reached after at most that many iterations
C21_OptimizeTerminates ==
    /\ [](opt.rounds <= Measure(BuildCfg(opt.ir)) + 1)
    /\ [][(opt.started /\ opt'.once = NotRun /\ opt'.changed)
            => Measure(opt'.blocks) < Measure(opt.blocks)]_vars

\* a call that returned after an iteration that changed the list and one
\* that changed nothing
C21_Witness ==
    /\ opt.once # NotRun
    /\ opt.rounds = 2
    /\ ~opt.changed
    /\ opt.once.ret # opt.ir

\* ------------------------------------------------------------------------
\* Properties of the passes
\* ------------------------------------------------------------------------
\* the instructions of all the blocks, in order
AllInstructions(blocks) == FlattenCfg(blocks)

\* the operations dead-code elimination is said never to remove
SideEffectOps == {"store", "call", "return", "return_void", "branch_false", "jump"}

\* the labels the jumps and branches of the instructions refer to
ReferredLabels(instructions) ==
    { instructions[i].args[1] :
        i \in { j \in DOMAIN instructions : instructions[j].op = "jump" } }
    \cup { instructions[i].args[2] :
             i \in { j \in DOMAIN instructions : instructions[j].op = "branch_false" } }

\* the names the instructions read
ReadNames(instructions) ==
    UNION { { instructions[i].args[n] : n \in DOMAIN instructions[i].args } :
            i \in { j \in DOMAIN instructions : instructions[j].op # "label" } }

Occurs(instr, instructions) == \E i \in DOMAIN instructions : instructions[i] = instr

\* C22: dead-code elimination keeps every store, call, return, return_void,
\* branch_false and jump, keeps every label that a jump or branch_false it
\* leaves in the program refers to, and removes only instructions whose
\* result no later instruction it leaves reads
C22_DceKeeps ==
    opt.rounds > 0 /\ opt.dce_in # <<>> =>
      LET before == AllInstructions(opt.dce_in)
          after == AllInstructions(opt.dce_out)
      IN  /\ SelectSeq(before, LAMBDA instr : instr.op \in SideEffectOps)
               = SelectSeq(after, LAMBDA instr : instr.op \in SideEffectOps)
          /\ \A i \in DOMAIN before :
                (before[i].op = "label" /\ before[i].args[1] \in ReferredLabels(after))
                   => Occurs(before[i], after)
          /\ \A i \in DOMAIN before :
                (before[i].op \notin SideEffectOps \cup {"label"} /\ ~Occurs(before[i], after))
                   => ~ \E q \in DOMAIN after :
                          /\ before[i].result \in ReadNames(<<after[q]>>)
                          /\ \A p \in DOMAIN before : before[p] = after[q] => p > i

\* the names the instructions define: the results of the instructions
DefinedNames(instructions) ==
    { instructions[i].result :
        i \in { j \in DOMAIN instructions : Truthy(instructions[j].result) } }

\* the names the instructions define and read afterwards
DefinedThenRead(instructions) ==
    { instructions[i].result :
        i \in { j \in DOMAIN instructions :
                   /\ Truthy(instructions[j].result)
                   /\ \E u \in DOMAIN instructions :
                         u > j /\ instructions[j].result \in ReadNames(<<instructions[u]>>) } }

\* C23: optimize introduces no undefined temporary: a name that an
\* instruction of the optimized list reads, and that the list given defines
\* before reading it, is defined in the optimized list too
C23_NoUndefinedTemporaries ==
    opt.once # NotRun =>
      \A name \in ReadNames(opt.once.ret) :
         name \in DefinedThenRead(opt.ir) => name \in DefinedNames(opt.once.ret)

\* the integer an expression over integer literals stands for
RECURSIVE IntegerValue(_)
IntegerValue(e) ==
    IF e.type = "NumberLiteral" THEN e.value
    ELSE CASE e.operator = "+" -> IntegerValue(e.left) + IntegerValue(e.right)
           [] e.operator = "-" -> IntegerValue(e.left) - IntegerValue(e.right)
           [] e.operator = "*" -> IntegerValue(e.left) * IntegerValue(e.right)

\* C24: the optimized IR of a function whose body is return e, e an
\* arithmetic expression over integer literals, holds exactly one
\* load_const, before the return, and its constant is the integer value of
\* e written as an integer
C24_FoldedToInteger ==
    \A e \in FoldedExpressions :
       (opt.once # NotRun /\ opt.ir = ReturnIr(e)) =>
          LET ret == opt.once.ret
              loads == { i \in DOMAIN ret : ret[i].op = "load_const" }
          IN  /\ Cardinality(loads) = 1
              /\ \A i \in loads :
                    /\ ret[i].args = <<Join(IntStr(IntegerValue(e)))>>
                    /\ \E j \in DOMAIN ret :
                          j > i /\ ret[j].op = "return" /\ ret[j].args = <<ret[i].result>>

\* ------------------------------------------------------------------------
\* RegisterAllocator().allocate_registers(ir_function), run more than once
\* on the same IR, each run by an allocator of its own
\* ------------------------------------------------------------------------
MaxRunLen == 4

MaxRuns == 2

\* the instructions the single blocks are made of
RunPool ==
    { [dest |-> "t0"],
      [dest |-> "t1"],
      [src1 |-> "t0"],
      [src1 |-> "t1"],
      [dest |-> "t2", src1 |-> "t0", src2 |-> "t1"] }

\* blocks of one instruction each that reads t(2b-2) and t(2b-1), those
\* below n
CrowdedUses(n) ==
    [b \in 1..((n + 1) \div 2) |->
        [instructions |->
            <<IF 2 * b - 1 < n
              THEN [src1 |-> "t" \o Join(IntStr(2 * b - 2)),
                    src2 |-> "t" \o Join(IntStr(2 * b - 1))]
              ELSE [src1 |-> "t" \o Join(IntStr(2 * b - 2))]>>]]

\* the frame sizes of the functions where temporaries are spilled
FrameSizes == {0, 24}

RunFunctions ==
    { [blocks |-> <<[instructions |-> l]>>, stack_size |-> 0] :
        l \in SeqsUpTo(RunPool, MaxRunLen) }
    \cup { [blocks |-> bs, stack_size |-> s] :
             bs \in {CrowdedBlocks(15), CrowdedBlocks(16), CrowdedUses(16)},
             s \in FrameSizes }

\* RegisterAllocator.__init__ and the function it is about to be given
FreshAllocator(fn) ==
    [fn |-> fn, live_ranges |-> <<>>,
     interference_graph |-> [nodes |-> <<>>, edges |-> {}],
     coloring |-> <<>>, spilled_vars |-> {}, calls |-> 0]

RunsInit ==
    /\ alloc \in { [given |-> fn, runs |-> <<>>] : fn \in RunFunctions }
    /\ BesideAllocIdle

\* RegisterAllocator().allocate_registers(copy of the function): the
\* allocator and the function after the call, with the order in which this
\* run iterated the set spilled_vars
AllocateRunStep ==
    /\ Len(alloc.runs) < MaxRuns
    /\ \E order \in Orders(SpilledNext(FreshAllocator(alloc.given))) :
          alloc' = [alloc EXCEPT !.runs =
                       Append(@, [order |-> order,
                                  a |-> AllocateRegisters(FreshAllocator(alloc.given),
                                                          order)])]
    /\ UNCHANGED besideAlloc

RunsNext == AllocateRunStep

SpecAllocatorRuns == RunsInit /\ [][RunsNext]_vars

\* ------------------------------------------------------------------------
\* Properties of the allocator
\* ------------------------------------------------------------------------
\* the indices (from 0) of the instructions of a block that define a
\* temporary, and of those that read it
DefinedAt(instructions, temp) ==
    { i - 1 : i \in { n \in DOMAIN instructions :
                        "dest" \in DOMAIN instructions[n] /\ instructions[n].dest = temp } }

UsedAt(instructions, temp) ==
    { i - 1 : i \in { n \in DOMAIN instructions :
                        \/ ("src1" \in DOMAIN instructions[n] /\ instructions[n].src1 = temp)
                        \/ ("src2" \in DOMAIN instructions[n] /\ instructions[n].src2 = temp) } }

TempsOf(instructions) ==
    UNION { { instructions[n][key] : key \in DOMAIN instructions[n] } :
            n \in DOMAIN instructions }

MaxOf(S) == CHOOSE m \in S : \A n \in S : n <= m

\* the temporaries a block defines once, at i, and reads last at j >= i:
\* the triples <<temp, i, j>>
Intervals(instructions) ==
    { <<temp, MaxOf(DefinedAt(instructions, temp)), MaxOf(UsedAt(instructions, temp))>> :
        temp \in { t \in TempsOf(instructions) :
                     /\ Cardinality(DefinedAt(instructions, t)) = 1
                     /\ UsedAt(instructions, t) # {}
                     /\ MaxOf(UsedAt(instructions, t)) >= MaxOf(DefinedAt(instructions, t)) } }

\* C25: a temporary defined at index i of a block and last used at j >= i
\* gets one live range that covers [i, j], and an interference edge with
\* every other temporary whose interval in the block meets [i, j]
C25_RangeCoversInterval ==
    \A r \in DOMAIN alloc.runs :
      \A b \in DOMAIN alloc.given.blocks :
        LET spans == Intervals(alloc.given.blocks[b].instructions)
            A == alloc.runs[r].a
        IN  \A s \in spans :
              /\ \E n \in DOMAIN A.live_ranges :
                    /\ A.live_ranges[n].temp = s[1]
                    /\ A.live_ranges[n].start <= s[2]
                    /\ A.live_ranges[n].end >= s[3]
              /\ \A u \in spans :
                    (u[1] # s[1] /\ u[2] <= s[3] /\ s[2] <= u[3])
                       => {s[1], u[1]} \in A.interference_graph.edges

\* the instructions of the code in a rewritten block, without the moves
\* _handle_spills put between them
Rewritten(instructions) == SelectSeq(instructions, LAMBDA instr : "opcode" \notin DOMAIN instr)

IsStore(instr, slot) ==
    "opcode" \in DOMAIN instr /\ instr.opcode = "mov" /\ instr.dest = slot /\ instr.src = "rax"

IsLoad(instr, slot) ==
    "opcode" \in DOMAIN instr /\ instr.opcode = "mov" /\ instr.dest = "r11" /\ instr.src = slot

\* the runs that spilled a temporary
SpillRuns == { r \in DOMAIN alloc.runs : alloc.runs[r].a.spilled_vars # {} }

\* C26: in the rewritten code, the instruction that defines a spilled
\* temporary is immediately followed by the store of rax to its slot, and an
\* instruction that read a spilled temporary reads r11 in its place and is
\* immediately preceded by the load of the slot into r11
C26_SpillCodePlaced ==
    \A r \in SpillRuns :
      LET A == alloc.runs[r].a
          order == alloc.runs[r].order
      IN  \A b \in DOMAIN A.fn.blocks :
            LET code == A.fn.blocks[b].instructions
                given == alloc.given.blocks[b].instructions
            IN  \A p \in DOMAIN code :
                  "opcode" \notin DOMAIN code[p] =>
                    LET n == Len(Rewritten(SubSeq(code, 1, p)))
                    IN  /\ ("dest" \in DOMAIN given[n] /\ given[n].dest \in A.spilled_vars)
                              => /\ p < Len(code)
                                 /\ IsStore(code[p + 1], SpillSlot(order, given[n].dest))
                        /\ \A key \in {"src1", "src2"} \cap DOMAIN given[n] :
                              given[n][key] \in A.spilled_vars
                                 => /\ code[p][key] = "r11"
                                    /\ p > 1
                                    /\ IsLoad(code[p - 1], SpillSlot(order, given[n][key]))

\* C27: two runs of allocate_registers on the same IR give the same
\* coloring, the same spilled temporaries, the same slot for each of them
\* and the same rewritten instructions
C27_RunsAgree ==
    \A r, s \in DOMAIN alloc.runs :
       /\ alloc.runs[r].a.coloring = alloc.runs[s].a.coloring
       /\ alloc.runs[r].a.spilled_vars = alloc.runs[s].a.spilled_vars
       /\ \A var \in alloc.runs[r].a.spilled_vars :
             SpillSlot(alloc.runs[r].order, var) = SpillSlot(alloc.runs[s].order, var)
       /\ alloc.runs[r].a.fn = alloc.runs[s].a.fn

\* C28: the spilled temporaries get slots of their own, and the frame of
\* the function grows by 8 bytes for each of them
C28_FrameGrows ==
    \A r \in SpillRuns :
      LET A == alloc.runs[r].a
          order == alloc.runs[r].order
      IN  /\ \A x, y \in A.spilled_vars :
                x # y => SpillSlot(order, x) # SpillSlot(order, y)
          /\ A.fn.stack_size >= alloc.given.stack_size + 8 * Cardinality(A.spilled_vars)

\* the registers the spill code of an instruction writes or reads
SpillRegisters(instr, spilled_vars) ==
    (IF "dest" \in DOMAIN instr /\ instr.dest \in spilled_vars THEN {"RAX"} ELSE {})
    \cup (IF \E key \in {"src1", "src2"} \cap DOMAIN instr : instr[key] \in spilled_vars
          THEN {"R11"} ELSE {})

\* C29: the registers of the spill code of an instruction are not held by
\* a temporary that is live at that instruction, and two different spilled
\* temporaries read by one instruction are not both replaced by the same
\* register
C29_SpillRegistersFree ==
    \A r \in SpillRuns :
      LET A == alloc.runs[r].a
      IN  \A b \in DOMAIN alloc.given.blocks :
            LET given == alloc.given.blocks[b].instructions
                code == Rewritten(A.fn.blocks[b].instructions)
            IN  \A n \in DOMAIN given :
                  /\ \A m \in DOMAIN A.live_ranges :
                        LET lr == A.live_ranges[m]
                        IN  (/\ lr.temp \in DOMAIN A.coloring
                             /\ lr.start <= n - 1 /\ n - 1 <= lr.end)
                               => A.coloring[lr.temp]
                                     \notin SpillRegisters(given[n], A.spilled_vars)
                  /\ (/\ {"src1", "src2"} \subseteq DOMAIN given[n]
                      /\ given[n].src1 # given[n].src2
                      /\ {given[n].src1, given[n].src2} \subseteq A.spilled_vars)
                        => code[n].src1 # code[n].src2

\* ------------------------------------------------------------------------
\* the layout of the image in memory
\* ------------------------------------------------------------------------
\* the virtual address range of section n (from 0) in the file written:
\* VirtualAddress, and the address after VirtualSize bytes
SectionStart(n) == ReadU32(pe.fs.content, SectionHeaderOffset(n) + 12)

SectionEnd(n) == SectionStart(n) + ReadU32(pe.fs.content, SectionHeaderOffset(n) + 8)

\* SizeOfImage of the optional header of the file written
SizeOfImageWritten == ReadU32(pe.fs.content, Len(DosHeader) + 4 + 20 + 56)

\* C30: in every PE file written by generate the virtual address ranges
\* [VirtualAddress, VirtualAddress + VirtualSize) of the sections are
\* pairwise disjoint and SizeOfImage covers all of them, whatever the size
\* of the code, of the data and of the import table
C30_SectionsDisjoint ==
    (pe.last.op = "generate" /\ pe.last.st = "ok") =>
      \A n \in 0..(NumberOfSectionsWritten - 1) :
         /\ SectionEnd(n) <= SizeOfImageWritten
         /\ \A m \in 0..(n - 1) :
               ~(SectionStart(m) < SectionEnd(n) /\ SectionStart(n) < SectionEnd(m))

====
